---- MODULE Spec2Model ----
(***************************************************************************)
(* A model of the whirlpool node runtime: the frame codec, the request and *)
(* response builders, the node configuration, the persistence store and    *)
(* the node's startup and connection handling.                             *)
(*                                                                         *)
(* Conventions.  An Option<T> is a set with at most one element: {} is     *)
(* None and {x} is Some(x).  A byte string is a sequence of 0..255.  A     *)
(* Uuid is a small positive number, written on the wire as one decimal     *)
(* digit; a SocketAddr is a small number, written the same way.            *)
(***************************************************************************)
EXTENDS Integers, Sequences, FiniteSets, TLC

(***************************************************************************)
(* Bounds of the model.                                                    *)
(***************************************************************************)
MaxUuid == 2
MaxAddr == 1
MaxHeaders == 1
MaxNode == 2
MaxPort == 2
MaxClient == 1
MaxOrigin == 2

(***************************************************************************)
(* State.                                                                  *)
(*                                                                         *)
(* The frame codec over one duplex stream:                                 *)
(*   frameIn   the body handed to write_frame, if any (an Option)          *)
(*   written   every byte put on the stream so far                         *)
(*   stream    the bytes on the stream not read yet                        *)
(*   frameOut  Some([ty, res]) once read_frame::<ty> has returned res      *)
(* The message builders:                                                   *)
(*   reqBuilder, respBuilder   the builder under construction, if any      *)
(*   built     Some([of, builder, res]) once finish has returned res       *)
(* The persistence store:                                                  *)
(*   disk      the file at each path: None, or Some(its bytes)             *)
(*   store     the Persist value under test, if any: its path, its record, *)
(*             and the last call made on it                                *)
(*   opened    Some([path, existed, setId, res]) right after a             *)
(*             Persist::open returned res                                  *)
(*   setIds    per path, the id given to the last set_node_id on a store   *)
(*             at that path (history)                                      *)
(* The node configuration:                                                 *)
(*   configured  Some([config, opens, had, res]) right after build_node    *)
(*             returned res for config; opens: the persistence file opened *)
(*             without error; had: the node id it held                     *)
(* The node runtime:                                                       *)
(*   nodes     per node: its process (the Node value and where it stands)  *)
(*   conns     the TCP connections, by slot                                *)
(*   event     what the last step did, when it was a call of build_node or *)
(*             of run, a response written, or the end of a process:        *)
(*             Some([e, n, node, bound, req, res])                         *)
(* Functions applied on their own:                                         *)
(*   applied   Some([f, ...arguments, res]) right after the function f of  *)
(*             the code was applied to arguments and returned res          *)
(***************************************************************************)
VARIABLES frameIn, written, stream, frameOut,
          reqBuilder, respBuilder, built,
          disk, store, opened, setIds,
          configured,
          nodes, conns, event,
          applied

frameVars == <<frameIn, written, stream, frameOut>>
buildVars == <<reqBuilder, respBuilder, built>>
persistVars == <<store, opened, setIds>>
configVars == <<configured>>
nodeVars == <<nodes, conns, event>>
vars == <<frameVars, buildVars, disk, persistVars, configVars, nodeVars, applied>>

\* What the steps of one component leave alone.
outsideFrame == <<buildVars, disk, persistVars, configVars, nodeVars, applied>>
outsideBuild == <<frameVars, disk, persistVars, configVars, nodeVars, applied>>
outsidePersist == <<frameVars, buildVars, configVars, nodeVars, applied>>
outsideConfig == <<frameVars, buildVars, persistVars, nodeVars, applied>>
outsideNode == <<frameVars, buildVars, persistVars, configVars, applied>>
outsideApplied == <<frameVars, buildVars, disk, persistVars, configVars, nodeVars>>

Uuids == 1..MaxUuid
Addrs == 1..MaxAddr

None == {}
Some(x) == {x}
Opt(S) == {None} \cup {Some(x) : x \in S}
Unwrap(o) == CHOOSE x \in o : TRUE

(***************************************************************************)
(* Byte strings of the names serde writes (field and variant names).       *)
(***************************************************************************)
Str_node == <<110, 111, 100, 101>>
Str_headers == <<104, 101, 97, 100, 101, 114, 115>>
Str_body == <<98, 111, 100, 121>>
Str_Ping == <<80, 105, 110, 103>>
Str_GetInfo == <<71, 101, 116, 73, 110, 102, 111>>
Str_ConnectToCluster == <<67, 111, 110, 110, 101, 99, 116, 84, 111, 67, 108, 117, 115, 116, 101, 114>>
Str_socket_addr == <<115, 111, 99, 107, 101, 116, 95, 97, 100, 100, 114>>
Str_Ok == <<79, 107>>
Str_Pong == <<80, 111, 110, 103>>
Str_Err == <<69, 114, 114>>
Str_NodeInfo == <<78, 111, 100, 101, 73, 110, 102, 111>>
Str_cluster == <<99, 108, 117, 115, 116, 101, 114>>
Str_id == <<105, 100>>
Str_manager == <<109, 97, 110, 97, 103, 101, 114>>
Str_members == <<109, 101, 109, 98, 101, 114, 115>>
Str_node_id == <<110, 111, 100, 101, 95, 105, 100>>
Str_null == <<110, 117, 108, 108>>

(***************************************************************************)
(* JSON values: null, a string, or an object (a sequence of <<key, value>> *)
(* pairs in the order they are written).                                   *)
(***************************************************************************)
JNull == [k |-> "null"]
JStr(s) == [k |-> "str", s |-> s]
JObj(m) == [k |-> "obj", m |-> m]

RECURSIVE JsonEscape(_)
\* serde_json's string escaping of the quote and the backslash.
JsonEscape(s) ==
  IF s = <<>> THEN <<>>
  ELSE (IF Head(s) \in {34, 92} THEN <<92, Head(s)>> ELSE <<Head(s)>>)
       \o JsonEscape(Tail(s))

JsonQuote(s) == <<34>> \o JsonEscape(s) \o <<34>>

RECURSIVE Spaces(_)
Spaces(n) == IF n = 0 THEN <<>> ELSE <<32>> \o Spaces(n - 1)

\* The pretty formatter's line break: a newline and two spaces per level.
JsonIndent(depth) == <<10>> \o Spaces(2 * depth)

RECURSIVE JsonWrite(_, _)
RECURSIVE JsonWriteMembers(_, _, _)
\* serde_json::to_writer_pretty of a JSON value at nesting depth `depth`.
JsonWrite(v, depth) ==
  IF v.k = "null" THEN Str_null
  ELSE IF v.k = "str" THEN JsonQuote(v.s)
  ELSE IF v.m = <<>> THEN <<123, 125>>
  ELSE <<123>> \o JsonWriteMembers(v.m, 1, depth + 1)
       \o JsonIndent(depth) \o <<125>>

JsonWriteMembers(m, i, depth) ==
  IF i > Len(m) THEN <<>>
  ELSE (IF i > 1 THEN <<44>> ELSE <<>>)
       \o JsonIndent(depth) \o JsonQuote(m[i][1]) \o <<58, 32>>
       \o JsonWrite(m[i][2], depth)
       \o JsonWriteMembers(m, i + 1, depth)

JsonWs == {32, 10, 13, 9}

RECURSIVE SkipWs(_, _)
SkipWs(s, i) == IF i <= Len(s) /\ s[i] \in JsonWs THEN SkipWs(s, i + 1) ELSE i

\* A reader's result.  A failure at the end of the input (eof) is
\* serde_json's Category::Eof, any other is Category::Syntax.
JFail == [ok |-> FALSE, eof |-> FALSE]
JEof == [ok |-> FALSE, eof |-> TRUE]
JOk(v, next) == [ok |-> TRUE, eof |-> FALSE, v |-> v, next |-> next]

RECURSIVE JsonReadString(_, _, _)
\* The characters of a string literal from position i (after the opening
\* quote) up to the closing quote; acc is what was read so far.
JsonReadString(s, i, acc) ==
  IF i > Len(s) THEN JEof
  ELSE IF s[i] = 34 THEN JOk(acc, i + 1)
  ELSE IF s[i] = 92
       THEN IF i + 1 > Len(s) THEN JEof
            ELSE IF s[i + 1] \in {34, 92}
            THEN JsonReadString(s, i + 2, Append(acc, s[i + 1]))
            ELSE JFail
  ELSE IF s[i] < 32 THEN JFail
  ELSE JsonReadString(s, i + 1, Append(acc, s[i]))

RECURSIVE JsonReadValue(_, _)
RECURSIVE JsonReadMembers(_, _, _)
\* serde_json's reader: one value starting at the first non-blank
\* position at or after i.
JsonReadValue(s, i0) ==
  LET i == SkipWs(s, i0) IN
  IF i > Len(s) THEN JEof
  ELSE IF s[i] = 34 THEN
    LET r == JsonReadString(s, i + 1, <<>>) IN
    IF r.ok THEN JOk(JStr(r.v), r.next) ELSE r
  ELSE IF s[i] = 110 THEN
    IF i + 3 > Len(s) THEN JEof
    ELSE IF SubSeq(s, i, i + 3) = Str_null THEN JOk(JNull, i + 4)
    ELSE JFail
  ELSE IF s[i] = 123 THEN
    LET j == SkipWs(s, i + 1) IN
    IF j <= Len(s) /\ s[j] = 125 THEN JOk(JObj(<<>>), j + 1)
    ELSE JsonReadMembers(s, j, <<>>)
  ELSE JFail

\* The members of an object from position i (a key's opening quote) on.
JsonReadMembers(s, i, acc) ==
  IF i > Len(s) THEN JEof
  ELSE IF s[i] # 34 THEN JFail
  ELSE
    LET key == JsonReadString(s, i + 1, <<>>) IN
    IF ~key.ok THEN key
    ELSE
      LET c == SkipWs(s, key.next) IN
      IF c > Len(s) THEN JEof
      ELSE IF s[c] # 58 THEN JFail
      ELSE
        LET val == JsonReadValue(s, c + 1) IN
        IF ~val.ok THEN val
        ELSE
          LET d == SkipWs(s, val.next)
              got == Append(acc, <<key.v, val.v>>)
          IN
          IF d > Len(s) THEN JEof
          ELSE IF s[d] = 125 THEN JOk(JObj(got), d + 1)
          ELSE IF s[d] = 44 THEN JsonReadMembers(s, SkipWs(s, d + 1), got)
          ELSE JFail

\* serde_json::from_slice up to the typed layer: one value, then only
\* blanks to the end of the input (anything else is a syntax error).
JsonParse(s) ==
  LET r == JsonReadValue(s, 1) IN
  IF r.ok /\ SkipWs(s, r.next) <= Len(s) THEN JFail ELSE r


(***************************************************************************)
(* The data model: clusters, requests and responses.                       *)
(***************************************************************************)
\* HashMap<Uuid, SocketAddr>: a function from a set of node ids.
MemberMaps == UNION {[D -> Addrs] : D \in SUBSET Uuids}

Clusters == [id : Uuids, manager : Uuids, members : MemberMaps]

\* Header names "a", "b", ...; every header has the value x" (with a quote
\* in it, which the JSON writer escapes).
HeaderKeys == {<<96 + i>> : i \in 1..MaxHeaders}
HeaderVals == {<<120, 34>>}
HeaderMaps == UNION {[D -> HeaderVals] : D \in SUBSET HeaderKeys}

Ping == [t |-> "Ping"]
GetInfo == [t |-> "GetInfo"]
ConnectToCluster(a) == [t |-> "ConnectToCluster", socket_addr |-> a]
RequestBodies == {Ping, GetInfo} \cup {ConnectToCluster(a) : a \in Addrs}

ErrMessages == {<<>>, <<101>>, <<92, 34>>}
RespOk == [t |-> "Ok"]
Pong == [t |-> "Pong"]
RespErr(msg) == [t |-> "Err", msg |-> msg]
NodeInfo(n, c) == [t |-> "NodeInfo", node |-> n, cluster |-> c]
ResponseBodies ==
  {RespOk, Pong} \cup {RespErr(m) : m \in ErrMessages}
  \cup {NodeInfo(n, c) : n \in Uuids, c \in Opt(Clusters)}

MkRequest(node, headers, body) ==
  [ty |-> "Request", node |-> node, headers |-> headers, body |-> body]
MkResponse(headers, body) ==
  [ty |-> "Response", headers |-> headers, body |-> body]

Requests == {MkRequest(n, h, b) : n \in Opt(Uuids), h \in HeaderMaps, b \in RequestBodies}
Responses ==
  {MkResponse(h, b) : h \in HeaderMaps,
     b \in {RespOk, Pong} \cup {RespErr(m) : m \in ErrMessages}
           \cup {NodeInfo(n, None) : n \in Uuids}}
  \cup {MkResponse(h, NodeInfo(n, Some(c))) : h \in HeaderMaps, n \in Uuids, c \in Clusters}

(***************************************************************************)
(* serde's Serialize and Deserialize of the data model, to and from JSON   *)
(* values.  A deserializer yields Some(value) or None (an error).          *)
(***************************************************************************)
\* Uuid's and SocketAddr's text forms.
UuidStr(u) == <<48 + u>>
AddrStr(a) == <<58, 48 + a>>
UuidParse(s) == IF Len(s) = 1 /\ s[1] \in 49..57 THEN Some(s[1] - 48) ELSE None
AddrParse(s) ==
  IF Len(s) = 2 /\ s[1] = 58 /\ s[2] \in 49..57 THEN Some(s[2] - 48) ELSE None

RECURSIVE SortedSeq(_)
\* The numbers of S in ascending order.
SortedSeq(S) ==
  IF S = {} THEN <<>>
  ELSE LET x == CHOOSE x \in S : \A y \in S : x <= y
       IN <<x>> \o SortedSeq(S \ {x})

Reverse(s) == [i \in 1..Len(s) |-> s[Len(s) + 1 - i]]

\* A HashMap iterates in an unspecified order: rev picks between the
\* ascending and the descending order of the keys.
MapOrder(S, rev) ==
  LET asc == SortedSeq(S) IN IF rev THEN Reverse(asc) ELSE asc

HeadersToJson(h, rev) ==
  LET ks == MapOrder({k[1] : k \in DOMAIN h}, rev)
  IN JObj([i \in 1..Len(ks) |-> << <<ks[i]>>, JStr(h[<<ks[i]>>]) >>])

MembersToJson(m, rev) ==
  LET ks == MapOrder(DOMAIN m, rev)
  IN JObj([i \in 1..Len(ks) |-> <<UuidStr(ks[i]), JStr(AddrStr(m[ks[i]]))>>])

ClusterToJson(c, rev) ==
  JObj(<< <<Str_id, JStr(UuidStr(c.id))>>,
          <<Str_manager, JStr(UuidStr(c.manager))>>,
          <<Str_members, MembersToJson(c.members, rev)>> >>)

OptUuidToJson(o) == IF o = None THEN JNull ELSE JStr(UuidStr(Unwrap(o)))
OptClusterToJson(o, rev) == IF o = None THEN JNull ELSE ClusterToJson(Unwrap(o), rev)

RequestBodyToJson(b) ==
  IF b.t = "Ping" THEN JStr(Str_Ping)
  ELSE IF b.t = "GetInfo" THEN JStr(Str_GetInfo)
  ELSE JObj(<< <<Str_ConnectToCluster,
                 JObj(<< <<Str_socket_addr, JStr(AddrStr(b.socket_addr))>> >>)>> >>)

ResponseBodyToJson(b, rev) ==
  IF b.t = "Ok" THEN JStr(Str_Ok)
  ELSE IF b.t = "Pong" THEN JStr(Str_Pong)
  ELSE IF b.t = "Err" THEN JObj(<< <<Str_Err, JStr(b.msg)>> >>)
  ELSE JObj(<< <<Str_NodeInfo,
                 JObj(<< <<Str_node, JStr(UuidStr(b.node))>>,
                         <<Str_cluster, OptClusterToJson(b.cluster, rev)>> >>)>> >>)

RequestToJson(r, rev) ==
  JObj(<< <<Str_node, OptUuidToJson(r.node)>>,
          <<Str_headers, HeadersToJson(r.headers, rev)>>,
          <<Str_body, RequestBodyToJson(r.body)>> >>)

ResponseToJson(r, rev) ==
  JObj(<< <<Str_headers, HeadersToJson(r.headers, rev)>>,
          <<Str_body, ResponseBodyToJson(r.body, rev)>> >>)

\* Serialize of a frame body: a Request or a Response.
ToJson(v, rev) ==
  IF v.ty = "Request" THEN RequestToJson(v, rev) ELSE ResponseToJson(v, rev)

\* A derived struct visitor's view of a JSON object's members.
Occ(m, key) == {i \in 1..Len(m) : m[i][1] = key}
Duplicated(m, keys) == \E key \in keys : Cardinality(Occ(m, key)) > 1
Field(m, key) == IF Occ(m, key) = {} THEN None ELSE Some(m[CHOOSE i \in Occ(m, key) : TRUE][2])

\* Lifts a parser of a present value to Option<T>: null and a missing
\* field are None.
OptFromJson(f, Parse(_)) ==
  IF f = None \/ Unwrap(f).k = "null" THEN Some(None)
  ELSE LET r == Parse(Unwrap(f)) IN IF r = None THEN None ELSE Some(r)

UuidFromJson(j) == IF j.k = "str" THEN UuidParse(j.s) ELSE None
AddrFromJson(j) == IF j.k = "str" THEN AddrParse(j.s) ELSE None

\* HashMap<String, String>: a later duplicate of a key replaces the earlier.
HeadersFromJson(j) ==
  IF j.k # "obj" THEN None
  ELSE IF \E i \in 1..Len(j.m) : j.m[i][2].k # "str" THEN None
  ELSE LET keys == {j.m[i][1] : i \in 1..Len(j.m)}
           Last(key) == CHOOSE i \in Occ(j.m, key) : \A i2 \in Occ(j.m, key) : i2 <= i
       IN Some([key \in keys |-> j.m[Last(key)][2].s])

MembersFromJson(j) ==
  IF j.k # "obj" THEN None
  ELSE IF \E i \in 1..Len(j.m) :
            \/ UuidParse(j.m[i][1]) = None
            \/ AddrFromJson(j.m[i][2]) = None
       THEN None
  ELSE LET ids == {Unwrap(UuidParse(j.m[i][1])) : i \in 1..Len(j.m)}
           Last(u) == CHOOSE i \in 1..Len(j.m) :
                        /\ UuidParse(j.m[i][1]) = Some(u)
                        /\ \A i2 \in 1..Len(j.m) :
                             UuidParse(j.m[i2][1]) = Some(u) => i2 <= i
       IN Some([u \in ids |-> Unwrap(AddrFromJson(j.m[Last(u)][2]))])

ClusterFromJson(j) ==
  IF j.k # "obj" \/ Duplicated(j.m, {Str_id, Str_manager, Str_members}) THEN None
  ELSE LET id == Field(j.m, Str_id)
           manager == Field(j.m, Str_manager)
           members == Field(j.m, Str_members)
       IN IF id = None \/ manager = None \/ members = None THEN None
          ELSE LET i == UuidFromJson(Unwrap(id))
                   g == UuidFromJson(Unwrap(manager))
                   ms == MembersFromJson(Unwrap(members))
               IN IF i = None \/ g = None \/ ms = None THEN None
                  ELSE Some([id |-> Unwrap(i), manager |-> Unwrap(g),
                             members |-> Unwrap(ms)])

\* An externally tagged enum: a unit variant is its name as a string; any
\* variant may come as an object with the one member {name: content}.
VariantOf(j) ==
  IF j.k = "str" THEN Some(<<j.s, JNull>>)
  ELSE IF j.k = "obj" /\ Len(j.m) = 1 THEN Some(<<j.m[1][1], j.m[1][2]>>)
  ELSE None

RequestBodyFromJson(j) ==
  LET v == VariantOf(j) IN
  IF v = None THEN None
  ELSE LET name == Unwrap(v)[1]
           c == Unwrap(v)[2]
       IN IF name = Str_Ping /\ c.k = "null" THEN Some(Ping)
          ELSE IF name = Str_GetInfo /\ c.k = "null" THEN Some(GetInfo)
          ELSE IF name = Str_ConnectToCluster /\ c.k = "obj"
                  /\ ~Duplicated(c.m, {Str_socket_addr})
                  /\ Field(c.m, Str_socket_addr) # None
               THEN LET a == AddrFromJson(Unwrap(Field(c.m, Str_socket_addr)))
                    IN IF a = None THEN None ELSE Some(ConnectToCluster(Unwrap(a)))
          ELSE None

ResponseBodyFromJson(j) ==
  LET v == VariantOf(j) IN
  IF v = None THEN None
  ELSE LET name == Unwrap(v)[1]
           c == Unwrap(v)[2]
       IN IF name = Str_Ok /\ c.k = "null" THEN Some(RespOk)
          ELSE IF name = Str_Pong /\ c.k = "null" THEN Some(Pong)
          ELSE IF name = Str_Err /\ j.k = "obj" /\ c.k = "str" THEN Some(RespErr(c.s))
          ELSE IF name = Str_NodeInfo /\ c.k = "obj"
                  /\ ~Duplicated(c.m, {Str_node, Str_cluster})
                  /\ Field(c.m, Str_node) # None
               THEN LET n == UuidFromJson(Unwrap(Field(c.m, Str_node)))
                        cl == OptFromJson(Field(c.m, Str_cluster), ClusterFromJson)
                    IN IF n = None \/ cl = None THEN None
                       ELSE Some(NodeInfo(Unwrap(n), Unwrap(cl)))
          ELSE None

RequestFromJson(j) ==
  IF j.k # "obj" \/ Duplicated(j.m, {Str_node, Str_headers, Str_body}) THEN None
  ELSE LET node == OptFromJson(Field(j.m, Str_node), UuidFromJson)
           headers == Field(j.m, Str_headers)
           body == Field(j.m, Str_body)
       IN IF node = None \/ headers = None \/ body = None THEN None
          ELSE LET h == HeadersFromJson(Unwrap(headers))
                   b == RequestBodyFromJson(Unwrap(body))
               IN IF h = None \/ b = None THEN None
                  ELSE Some(MkRequest(Unwrap(node), Unwrap(h), Unwrap(b)))

ResponseFromJson(j) ==
  IF j.k # "obj" \/ Duplicated(j.m, {Str_headers, Str_body}) THEN None
  ELSE LET headers == Field(j.m, Str_headers)
           body == Field(j.m, Str_body)
       IN IF headers = None \/ body = None THEN None
          ELSE LET h == HeadersFromJson(Unwrap(headers))
                   b == ResponseBodyFromJson(Unwrap(body))
               IN IF h = None \/ b = None THEN None
                  ELSE Some(MkResponse(Unwrap(h), Unwrap(b)))

\* Deserialize of a frame body read as type ty.
FromJson(j, ty) ==
  IF ty = "Request" THEN RequestFromJson(j) ELSE ResponseFromJson(j)

(***************************************************************************)
(* The frame codec.                                                        *)
(***************************************************************************)
\* The standard base64 alphabet: A-Z, a-z, 0-9, + and /.
B64Char(v) ==
  IF v < 26 THEN 65 + v
  ELSE IF v < 52 THEN 97 + (v - 26)
  ELSE IF v < 62 THEN 48 + (v - 52)
  ELSE IF v = 62 THEN 43 ELSE 47

\* The 6-bit value of a symbol, or -1 for a byte outside the alphabet.
B64Val(c) ==
  IF c \in 65..90 THEN c - 65
  ELSE IF c \in 97..122 THEN c - 97 + 26
  ELSE IF c \in 48..57 THEN c - 48 + 52
  ELSE IF c = 43 THEN 62
  ELSE IF c = 47 THEN 63 ELSE -1

\* STANDARD_NO_PAD.encode: three bytes make four symbols; a last group of
\* one or two bytes makes two or three symbols, without padding.
Base64Encode(bs) ==
  LET n == Len(bs)
      outLen == 4 * (n \div 3) + (IF n % 3 = 0 THEN 0 ELSE (n % 3) + 1)
      Byte(i) == IF i <= n THEN bs[i] ELSE 0
      Sym(k) ==
        LET g == 3 * (k \div 4)
            j == k % 4
        IN IF j = 0 THEN Byte(g + 1) \div 4
           ELSE IF j = 1 THEN ((Byte(g + 1) % 4) * 16) + (Byte(g + 2) \div 16)
           ELSE IF j = 2 THEN ((Byte(g + 2) % 16) * 4) + (Byte(g + 3) \div 64)
           ELSE Byte(g + 3) % 64
  IN [k \in 1..outLen |-> B64Char(Sym(k - 1))]

\* STANDARD_NO_PAD.decode: None for a byte outside the alphabet (padding
\* included), for a length of 1 modulo 4, and for non-zero trailing bits.
Base64Decode(cs) ==
  LET n == Len(cs)
      r == n % 4
      outLen == 3 * (n \div 4) + (IF r = 0 THEN 0 ELSE r - 1)
      V(i) == IF i <= n THEN B64Val(cs[i]) ELSE 0
      Out(k) ==
        LET g == 4 * (k \div 3)
            j == k % 3
        IN IF j = 0 THEN (V(g + 1) * 4) + (V(g + 2) \div 16)
           ELSE IF j = 1 THEN ((V(g + 2) % 16) * 16) + (V(g + 3) \div 4)
           ELSE ((V(g + 3) % 4) * 64) + V(g + 4)
  IN IF \E i \in 1..n : B64Val(cs[i]) = -1 THEN None
     ELSE IF r = 1 THEN None
     ELSE IF r = 2 /\ V(n) % 16 # 0 THEN None
     ELSE IF r = 3 /\ V(n) % 4 # 0 THEN None
     ELSE Some([k \in 1..outLen |-> Out(k - 1)])

\* MAGIC_NUMBER 0x575f504f4f4c, as the eight bytes write_u64 sends.
MAGIC_NUMBER == <<0, 0, 87, 95, 80, 79, 79, 76>>
LEN_SIZE == 8
RESERVED_SIZE == 4
MAGIC_NUMBER_SIZE == 8
BASE_FRAME_SIZE == LEN_SIZE + RESERVED_SIZE + MAGIC_NUMBER_SIZE

\* A u64 too large for the model's integers reads as this value.
HugeLength == (127 * 16777216) + 16777215

\* write_u64: big-endian, of a value below 2^31.
write_u64(n) ==
  <<0, 0, 0, 0, (n \div 16777216) % 256, (n \div 65536) % 256,
    (n \div 256) % 256, n % 256>>

\* read_u64 of eight bytes: the value, or HugeLength when it is 2^31 or more.
read_u64(b) ==
  IF b[1] = 0 /\ b[2] = 0 /\ b[3] = 0 /\ b[4] = 0 /\ b[5] < 128
  THEN (b[5] * 16777216) + (b[6] * 65536) + (b[7] * 256) + b[8]
  ELSE HugeLength

Zeros(n) == [i \in 1..n |-> 0]

\* write_frame with the header left out of the length field.
write_frame_LengthOfBody(v, rev) ==
  LET encoded == Base64Encode(JsonWrite(ToJson(v, rev), 0))
  IN write_u64(Len(encoded)) \o Zeros(RESERVED_SIZE) \o MAGIC_NUMBER \o encoded

\* AsyncFrameWriter::write_frame: the bytes written for frame body v.
write_frame(v, rev) ==
  LET buffered == JsonWrite(ToJson(v, rev), 0)
      encoded == Base64Encode(buffered)
      data_length == Len(encoded)
      frame_length == BASE_FRAME_SIZE + data_length
  IN write_u64(frame_length) \o Zeros(RESERVED_SIZE) \o MAGIC_NUMBER \o encoded

\* What read_frame returns: a frame, an io::Error of some kind, or no
\* return at all (a panic).  consumed counts the bytes taken off the stream.
ReadOk(v, consumed) ==
  [kind |-> "Ok", val |-> Some(v), err |-> "", why |-> "", consumed |-> consumed]
ReadErr(err, why, consumed) ==
  [kind |-> "Err", val |-> None, err |-> err, why |-> why, consumed |-> consumed]
ReadPanic(why, consumed) ==
  [kind |-> "Panic", val |-> None, err |-> "", why |-> why, consumed |-> consumed]

\* The body length computed at the allocation of the body buffer:
\* Some(n), or None when the usize subtraction underflows.
BodyLength(frame_length) ==
  IF frame_length < BASE_FRAME_SIZE THEN None ELSE Some(frame_length - BASE_FRAME_SIZE)

\* read_frame from the allocation of the body buffer on: the header was
\* read and its magic field accepted.
ReadBody(input, frame_length, ty) ==
  LET n == Len(input) IN
  IF BodyLength(frame_length) = None
  THEN ReadPanic("body length underflow", BASE_FRAME_SIZE)
  ELSE
    LET len == Unwrap(BodyLength(frame_length)) IN
    IF n - BASE_FRAME_SIZE < len THEN ReadErr("UnexpectedEof", "body", n)
    ELSE
      LET encoded_data == SubSeq(input, BASE_FRAME_SIZE + 1, BASE_FRAME_SIZE + len)
          consumed == BASE_FRAME_SIZE + len
          decoded == Base64Decode(encoded_data)
      IN
      IF decoded = None THEN ReadErr("InvalidData", "base64", consumed)
      ELSE
        LET json == JsonParse(Unwrap(decoded)) IN
        IF ~json.ok
        THEN ReadErr(IF json.eof THEN "UnexpectedEof" ELSE "InvalidData",
                     "json", consumed)
        ELSE
          LET body == FromJson(json.v, ty) IN
          IF body = None THEN ReadErr("InvalidData", "json", consumed)
          ELSE ReadOk(Unwrap(body), consumed)

\* read_frame without the comparison of the magic field.
read_frame_AnyMagic(input, ty) ==
  IF Len(input) < BASE_FRAME_SIZE THEN ReadErr("UnexpectedEof", "header", Len(input))
  ELSE ReadBody(input, read_u64(SubSeq(input, 1, LEN_SIZE)), ty)

\* AsyncFrameReader::read_frame::<ty> on a input that holds `input` and
\* then ends.
read_frame(input, ty) ==
  LET n == Len(input) IN
  IF n < BASE_FRAME_SIZE THEN ReadErr("UnexpectedEof", "header", n)
  ELSE
    LET frame_length == read_u64(SubSeq(input, 1, LEN_SIZE))
        magic == SubSeq(input, LEN_SIZE + RESERVED_SIZE + 1, BASE_FRAME_SIZE)
    IN
    IF magic # MAGIC_NUMBER
    THEN ReadErr("InvalidData", "magic number is wrong", BASE_FRAME_SIZE)
    ELSE ReadBody(input, frame_length, ty)

(***************************************************************************)
(* The request and response builders.                                      *)
(***************************************************************************)
\* A Result: Ok(v), Err(e), or no return at all (a panic).
Ok(v) == [kind |-> "Ok", val |-> Some(v), err |-> ""]
Err(e) == [kind |-> "Err", val |-> None, err |-> e]
Panicked(why) == [kind |-> "Panic", val |-> None, err |-> why]

\* whirlpool_common's assert_that: Ok(()) if the predicate holds, else
\* Err(error); as the Option of the error.
assert_that(predicate, error) == IF predicate THEN None ELSE Some(error)

\* HashMap::insert.
MapInsert(m, key, value) ==
  [x \in DOMAIN m \cup {key} |-> IF x = key THEN value ELSE m[x]]

RequestBuilderNew == [node |-> None, headers |-> <<>>, body |-> None]
ResponseBuilderNew == [headers |-> <<>>, body |-> None]

\* finish without the assertion on the body: unwrap runs on None.
RequestBuilderFinish_NoAssert(b) ==
  IF b.body = None THEN Panicked("unwrap on None")
  ELSE Ok(MkRequest(b.node, b.headers, Unwrap(b.body)))

\* RequestBuilder::finish.
RequestBuilderFinish(b) ==
  IF assert_that(b.body # None, "NoBodySet") # None
  THEN Err(Unwrap(assert_that(b.body # None, "NoBodySet")))
  ELSE Ok(MkRequest(b.node, b.headers, Unwrap(b.body)))

\* ResponseBuilder::finish.
ResponseBuilderFinish(b) ==
  IF assert_that(b.body # None, "NoBodySet") # None
  THEN Err(Unwrap(assert_that(b.body # None, "NoBodySet")))
  ELSE Ok(MkResponse(b.headers, Unwrap(b.body)))

\* Response::ok().
ResponseOk == Unwrap(ResponseBuilderFinish([ResponseBuilderNew EXCEPT !.body = Some(RespOk)]).val)

BuildIdle ==
  /\ reqBuilder = None
  /\ respBuilder = None
  /\ built = None

\* Request::builder() / RequestBuilder::new().  One builder is followed at
\* a time; the result of the last finish is kept until the next one starts.
RequestBuilderNewStep ==
  /\ reqBuilder = None /\ respBuilder = None
  /\ reqBuilder' = Some(RequestBuilderNew)
  /\ built' = None
  /\ UNCHANGED <<respBuilder, outsideBuild>>

\* RequestBuilder::header.
RequestBuilderHeader(key, value) ==
  /\ \E b \in reqBuilder :
       reqBuilder' = Some([b EXCEPT !.headers = MapInsert(b.headers, key, value)])
  /\ UNCHANGED <<respBuilder, built, outsideBuild>>

\* RequestBuilder::node, with the id of the node given.
RequestBuilderNode(id) ==
  /\ \E b \in reqBuilder : reqBuilder' = Some([b EXCEPT !.node = Some(id)])
  /\ UNCHANGED <<respBuilder, built, outsideBuild>>

\* RequestBuilder::body.
RequestBuilderBody(body) ==
  /\ \E b \in reqBuilder : reqBuilder' = Some([b EXCEPT !.body = Some(body)])
  /\ UNCHANGED <<respBuilder, built, outsideBuild>>

\* RequestBuilder::finish, which consumes the builder.
RequestBuilderFinishStep ==
  /\ \E b \in reqBuilder :
       built' = Some([of |-> "Request", builder |-> b, res |-> RequestBuilderFinish(b)])
  /\ reqBuilder' = None
  /\ UNCHANGED <<respBuilder, outsideBuild>>

\* Response::builder() / ResponseBuilder::new().
ResponseBuilderNewStep ==
  /\ reqBuilder = None /\ respBuilder = None
  /\ respBuilder' = Some(ResponseBuilderNew)
  /\ built' = None
  /\ UNCHANGED <<reqBuilder, outsideBuild>>

\* ResponseBuilder::header.
ResponseBuilderHeader(key, value) ==
  /\ \E b \in respBuilder :
       respBuilder' = Some([b EXCEPT !.headers = MapInsert(b.headers, key, value)])
  /\ UNCHANGED <<reqBuilder, built, outsideBuild>>

\* ResponseBuilder::body.
ResponseBuilderBody(body) ==
  /\ \E b \in respBuilder : respBuilder' = Some([b EXCEPT !.body = Some(body)])
  /\ UNCHANGED <<reqBuilder, built, outsideBuild>>

\* ResponseBuilder::finish, which consumes the builder.
ResponseBuilderFinishStep ==
  /\ \E b \in respBuilder :
       built' = Some([of |-> "Response", builder |-> b, res |-> ResponseBuilderFinish(b)])
  /\ respBuilder' = None
  /\ UNCHANGED <<reqBuilder, outsideBuild>>

BuildNext ==
  \/ RequestBuilderNewStep
  \/ \E key \in HeaderKeys, value \in HeaderVals : RequestBuilderHeader(key, value)
  \/ \E id \in Uuids : RequestBuilderNode(id)
  \/ \E body \in RequestBodies : RequestBuilderBody(body)
  \/ RequestBuilderFinishStep
  \/ ResponseBuilderNewStep
  \/ \E key \in HeaderKeys, value \in HeaderVals : ResponseBuilderHeader(key, value)
  \/ \E body \in ResponseBodies : ResponseBuilderBody(body)
  \/ ResponseBuilderFinishStep

(***************************************************************************)
(* C3.  finish returns the validation error NoBodySet, and does not panic, *)
(* exactly when the builder has no body; with a body it returns the        *)
(* Request (Response) made of the builder's body, origin node and headers. *)
(***************************************************************************)
C3_FinishValidates ==
  \A f \in built :
    /\ f.res.kind # "Panic"
    /\ (f.res.kind = "Err") <=> (f.builder.body = None)
    /\ f.res.kind = "Err" => f.res.err = "NoBodySet" /\ f.res.val = None
    /\ f.res.kind = "Ok" =>
         \E v \in f.res.val :
           /\ v.ty = f.of
           /\ Some(v.body) = f.builder.body
           /\ v.headers = f.builder.headers
           /\ f.of = "Request" => v.node = f.builder.node

\* A request builder given an origin and a header but no body was finished.
C3_Witness ==
  \E f \in built :
    /\ f.of = "Request"
    /\ f.builder.body = None
    /\ f.builder.node # None
    /\ f.builder.headers # <<>>
    /\ f.res.kind = "Err"

(***************************************************************************)
(* The persistence store.                                                  *)
(***************************************************************************)
\* The paths of persistence files: one per node of the model.
Paths == 1..MaxNode

\* PersistInner and its Default.
PersistDefault == [node_id |-> None, cluster |-> None]

PersistToJson(inner, rev) ==
  JObj(<< <<Str_node_id, OptUuidToJson(inner.node_id)>>,
          <<Str_cluster, OptClusterToJson(inner.cluster, rev)>> >>)

PersistFromJson(j) ==
  IF j.k # "obj" \/ Duplicated(j.m, {Str_node_id, Str_cluster}) THEN None
  ELSE LET id == OptFromJson(Field(j.m, Str_node_id), UuidFromJson)
           cl == OptFromJson(Field(j.m, Str_cluster), ClusterFromJson)
       IN IF id = None \/ cl = None THEN None
          ELSE Some([node_id |-> Unwrap(id), cluster |-> Unwrap(cl)])

\* A Persist value.
MkPersist(path, inner) == [path |-> path, inner |-> inner]

\* Persist::open on the files `files`.
PersistOpen(files, path) ==
  IF files[path] # None
  THEN LET json == JsonParse(Unwrap(files[path])) IN
       IF ~json.ok THEN Err(IF json.eof THEN "UnexpectedEof" ELSE "InvalidData")
       ELSE LET inner == PersistFromJson(json.v) IN
            IF inner = None THEN Err("InvalidData")
            ELSE Ok(MkPersist(path, Unwrap(inner)))
  ELSE Ok(MkPersist(path, PersistDefault))

\* Persist::flush: File::create, then the whole record written.
PersistFlush(p, files, rev) ==
  [files EXCEPT ![p.path] = Some(JsonWrite(PersistToJson(p.inner, rev), 0))]

\* What a call on a Persist leaves: the Persist and the files.
Left(p, files) == [p |-> p, files |-> files]

\* set_node_id without the flush.
PersistSetNodeId_NoFlush(p, files, id, rev) ==
  Left([p EXCEPT !.inner.node_id = Some(id)], files)

\* Persist::set_node_id.
PersistSetNodeId(p, files, id, rev) ==
  LET q == [p EXCEPT !.inner.node_id = Some(id)]
  IN Left(q, PersistFlush(q, files, rev))

\* set_cluster without the flush.
PersistSetCluster_NoFlush(p, files, cluster, rev) ==
  Left([p EXCEPT !.inner.cluster = Some(cluster)], files)

\* set_cluster that flushes, and leaves the cluster as it was.
PersistSetCluster_NotStored(p, files, cluster, rev) ==
  Left(p, PersistFlush(p, files, rev))

\* Persist::set_cluster.
PersistSetCluster(p, files, cluster, rev) ==
  LET q == [p EXCEPT !.inner.cluster = Some(cluster)]
  IN Left(q, PersistFlush(q, files, rev))

\* Cluster::join_into and Cluster::absorb: todo!().
ClusterJoinInto(self, other) == Panicked("not yet implemented")
ClusterAbsorb(self, other) == Panicked("not yet implemented")

\* The closures given to modify_cluster, as data: |c| c.join_into(&other),
\* |c| c.absorb(&other), and |c| *c = other (the fields of a Cluster are
\* private, so a closure changes one only through these).
CallJoinInto(other) == [f |-> "join_into", other |-> other]
CallAbsorb(other) == [f |-> "absorb", other |-> other]
CallAssign(other) == [f |-> "assign", other |-> other]

\* callback(cluster): Ok(the cluster as the callback leaves it), or a panic.
Call(callback, cluster) ==
  IF callback.f = "join_into" THEN ClusterJoinInto(cluster, callback.other)
  ELSE IF callback.f = "absorb" THEN ClusterAbsorb(cluster, callback.other)
  ELSE Ok(callback.other)

\* Persist::modify_cluster: [p, files] as for the other calls, and whether
\* the callback panicked (then nothing was changed and nothing flushed).
PersistModifyCluster(p, files, callback, rev) ==
  IF p.inner.cluster = None THEN [p |-> p, files |-> files, panicked |-> FALSE]
  ELSE LET r == Call(callback, Unwrap(p.inner.cluster)) IN
       IF r.kind = "Panic" THEN [p |-> p, files |-> files, panicked |-> TRUE]
       ELSE LET q == [p EXCEPT !.inner.cluster = r.val]
            IN [p |-> q, files |-> PersistFlush(q, files, rev), panicked |-> FALSE]

\* The path of the store under test, and what is given to its calls.
StorePath == 1
StoreClusters ==
  {[id |-> i, manager |-> m, members |-> <<>>] : i \in {1}, m \in Uuids}
StoreAssigned == {c \in Clusters : c.id = 1 /\ c.manager = 1}
StoreCallbacks ==
  {CallAssign(c) : c \in StoreAssigned}
  \cup {CallJoinInto(c) : c \in StoreClusters}
  \cup {CallAbsorb(c) : c \in StoreClusters}
\* Bytes that are no JSON record: an unfinished object, and a stray brace.
Garbage == {<<123>>, <<125>>, <<123, 125>>}

DiskEmpty == disk = [path \in Paths |-> None]

PersistIdle ==
  /\ store = None
  /\ opened = None
  /\ setIds = [path \in Paths |-> None]

\* Persist::open(path), with no store open.
PersistOpenStep(path) ==
  /\ store = None
  /\ LET res == PersistOpen(disk, path) IN
     /\ opened' = Some([path |-> path, existed |-> disk[path] # None,
                        setId |-> setIds[path], res |-> res])
     /\ store' = IF res.kind = "Ok"
                 THEN Some([path |-> path, inner |-> Unwrap(res.val).inner, last |-> "open"])
                 ELSE None
  /\ UNCHANGED <<disk, setIds, outsidePersist>>

\* A second Persist::open on the path of the open store.
PersistReopenStep ==
  /\ \E s \in store :
       opened' = Some([path |-> s.path, existed |-> disk[s.path] # None,
                       setId |-> setIds[s.path], res |-> PersistOpen(disk, s.path)])
  /\ UNCHANGED <<disk, store, setIds, outsidePersist>>

\* store.set_node_id(id).
PersistSetNodeIdStep(id, rev) ==
  /\ \E s \in store :
       LET r == PersistSetNodeId(MkPersist(s.path, s.inner), disk, id, rev) IN
       /\ store' = Some([path |-> s.path, inner |-> r.p.inner, last |-> "set_node_id"])
       /\ disk' = r.files
       /\ setIds' = [setIds EXCEPT ![s.path] = Some(id)]
  /\ opened' = None
  /\ UNCHANGED outsidePersist

\* store.set_cluster(cluster).
PersistSetClusterStep(cluster, rev) ==
  /\ \E s \in store :
       LET r == PersistSetCluster(MkPersist(s.path, s.inner), disk, cluster, rev) IN
       /\ store' = Some([path |-> s.path, inner |-> r.p.inner, last |-> "set_cluster"])
       /\ disk' = r.files
  /\ opened' = None
  /\ UNCHANGED <<setIds, outsidePersist>>

\* store.modify_cluster(callback).  A panic of the callback unwinds
\* through the owner of the store, whose Drop flushes it.
PersistModifyClusterStep(callback, rev) ==
  /\ \E s \in store :
       LET r == PersistModifyCluster(MkPersist(s.path, s.inner), disk, callback, rev) IN
       IF r.panicked
       THEN /\ store' = None
            /\ disk' = PersistFlush(r.p, r.files, rev)
       ELSE /\ store' = Some([path |-> s.path, inner |-> r.p.inner, last |-> "modify_cluster"])
            /\ disk' = r.files
  /\ opened' = None
  /\ UNCHANGED <<setIds, outsidePersist>>

\* Drop for Persist: a flush whose result is dropped.
PersistDropStep(rev) ==
  /\ \E s \in store : disk' = PersistFlush(MkPersist(s.path, s.inner), disk, rev)
  /\ store' = None
  /\ opened' = None
  /\ UNCHANGED <<setIds, outsidePersist>>

\* Something else overwrites the file while no store is open on it.
PersistCorruptStep(path, bytes) ==
  /\ store = None
  /\ disk' = [disk EXCEPT ![path] = Some(bytes)]
  /\ setIds' = [setIds EXCEPT ![path] = None]
  /\ opened' = None
  /\ UNCHANGED <<store, outsidePersist>>

PersistNext ==
  \/ PersistOpenStep(StorePath)
  \/ PersistReopenStep
  \/ \E id \in Uuids, rev \in BOOLEAN : PersistSetNodeIdStep(id, rev)
  \/ \E cluster \in StoreClusters, rev \in BOOLEAN : PersistSetClusterStep(cluster, rev)
  \/ \E callback \in StoreCallbacks, rev \in BOOLEAN : PersistModifyClusterStep(callback, rev)
  \/ \E rev \in BOOLEAN : PersistDropStep(rev)
  \/ \E bytes \in Garbage : PersistCorruptStep(StorePath, bytes)

(***************************************************************************)
(* C5.  Persist::open on a path that does not exist returns Ok with a      *)
(* record whose node id and cluster are both absent; Persist::open on a    *)
(* path after set_node_id(x) on a store at that path returns Ok with a     *)
(* record whose node id is x.                                              *)
(***************************************************************************)
C5_OpenAfterSetNodeId ==
  \A o \in opened :
    /\ ~o.existed =>
         /\ o.res.kind = "Ok"
         /\ \A p \in o.res.val : p.inner = PersistDefault /\ p.path = o.path
    /\ \A x \in o.setId :
         /\ o.res.kind = "Ok"
         /\ \A p \in o.res.val : p.inner.node_id = Some(x)

\* The store was dropped after set_node_id and set_cluster, and the path
\* was opened again.
C5_Witness ==
  \E o \in opened :
    /\ o.setId # None
    /\ o.existed
    /\ \E s \in store : s.last = "open" /\ s.inner.cluster # None

(***************************************************************************)
(* C6.  While a store is open, after each of its calls, the file at its    *)
(* path holds the store's record: opening the path yields the store's node *)
(* id and cluster.                                                         *)
(***************************************************************************)
C6_DurableAfterEachCall ==
  \A s \in store :
    PersistOpen(disk, s.path) = Ok(MkPersist(s.path, s.inner))

\* modify_cluster has returned on a store whose cluster has two members
\* and whose node id is set.
C6_Witness ==
  \E s \in store :
    /\ s.last = "modify_cluster"
    /\ s.inner.node_id # None
    /\ \E c \in s.inner.cluster : Cardinality(DOMAIN c.members) >= 2

(***************************************************************************)
(* The node configuration.                                                 *)
(***************************************************************************)
Roles == {"ClusterManager", "Client", "Data"}

\* RoleSet::default() / RoleSet::new(): all roles active.
RoleSetDefault == {"Data", "ClusterManager", "Client"}
\* has_role answering for any role of a set that has one.
has_role_Any(roles, role) == roles # {}
\* RoleSet::has_role and RoleSet::is_empty.
has_role(roles, role) == role \in roles
is_empty(roles) == roles = {}

\* The ports a configuration names: the small ones the model's nodes
\* listen on, and the two defaults.
DEFAULT_COMMS_PORT == 16700
DEFAULT_CLIENT_PORT == 16800
Ports == 1..MaxPort
ConfigPorts == Ports \cup {DEFAULT_COMMS_PORT, DEFAULT_CLIENT_PORT}

\* The path "node-info.json".
NodeInfoJson == 1

\* NodeConfig (bind_address is always localhost; timeout and cluster_addrs
\* are not read by build_node beyond being copied or dropped).
NodeConfig(persist, roles, comms_port, client_port) ==
  [persist |-> persist, roles |-> roles,
   comms_port |-> comms_port, client_port |-> client_port]

\* NodeConfig::default().
NodeConfigDefault ==
  NodeConfig(NodeInfoJson, RoleSetDefault, DEFAULT_COMMS_PORT, DEFAULT_CLIENT_PORT)

\* BuildNodeError.
NoRolesSet == [e |-> "NoRolesSet"]
CommsAndClientOnSamePort(port) == [e |-> "CommsAndClientOnSamePort", port |-> port]
BuildIoError(kind) == [e |-> "IoError", kind |-> kind]

\* The Node value.
MkNode(id, roles, comms_port, client_port, persist) ==
  [id |-> id, roles |-> roles, comms_port |-> comms_port,
   client_port |-> client_port, persist |-> persist, comms_socket |-> None]

\* The assertions in the other order: the ports, then the roles.
BuildAssertions_PortsFirst(config) ==
  IF assert_that(config.comms_port # config.client_port,
                 CommsAndClientOnSamePort(config.client_port)) # None
  THEN assert_that(config.comms_port # config.client_port,
                   CommsAndClientOnSamePort(config.client_port))
  ELSE assert_that(~is_empty(config.roles), NoRolesSet)

\* The first assertion of build_node that fails, if any: the roles, then
\* the ports.
BuildAssertions(config) ==
  IF assert_that(~is_empty(config.roles), NoRolesSet) # None
  THEN assert_that(~is_empty(config.roles), NoRolesSet)
  ELSE assert_that(config.comms_port # config.client_port,
                   CommsAndClientOnSamePort(config.client_port))

\* build_node from the assertions on: s is the Persist with its node id
\* set, and the files.  On an early return the Persist is dropped, which
\* flushes it.
BuildAsserted(config, s, failed, rev) ==
  [res |-> IF failed # None THEN Err(Unwrap(failed))
           ELSE Ok(MkNode(Unwrap(s.p.inner.node_id), config.roles,
                          config.comms_port, config.client_port, s.p)),
   files |-> IF failed # None THEN PersistFlush(s.p, s.files, rev) ELSE s.files]

\* build_node giving the node a new id at every call.
BuildOpened_AlwaysFresh(config, files, fresh, rev, o) ==
  IF o.kind # "Ok" THEN [res |-> Err(BuildIoError(o.err)), files |-> files]
  ELSE BuildAsserted(config, PersistSetNodeId(Unwrap(o.val), files, fresh, rev),
                     BuildAssertions(config), rev)

\* build_node from the opened Persist on.  fresh is what Uuid::new_v4()
\* returns.
BuildOpened(config, files, fresh, rev, o) ==
  IF o.kind # "Ok" THEN [res |-> Err(BuildIoError(o.err)), files |-> files]
  ELSE BuildAsserted(config,
                     IF Unwrap(o.val).inner.node_id = None
                     THEN PersistSetNodeId(Unwrap(o.val), files, fresh, rev)
                     ELSE Left(Unwrap(o.val), files),
                     BuildAssertions(config), rev)

\* NodeConfig::build_node: the result, and the files it leaves.
build_node(config, files, fresh, rev) ==
  BuildOpened(config, files, fresh, rev, PersistOpen(files, config.persist))

\* Every set of roles.
RoleSets ==
  {{}, {"ClusterManager"}, {"Client"}, {"Data"},
   {"ClusterManager", "Client"}, {"ClusterManager", "Data"}, {"Client", "Data"},
   RoleSetDefault}

\* The configurations built: every role set and pair of ports, on the
\* default path.
Configs ==
  {NodeConfig(NodeInfoJson, roles, comms_port, client_port) :
     roles \in RoleSets, comms_port \in ConfigPorts, client_port \in ConfigPorts}

ConfigIdle == configured = None

\* What configured records of a build_node call.
Configured(config, o, res) ==
  [config |-> config, opens |-> o.kind = "Ok",
   had |-> IF o.kind = "Ok" THEN Unwrap(o.val).inner.node_id ELSE None,
   res |-> res]

\* config.build_node().
BuildNodeStep(config, fresh) ==
  /\ configured = None
  /\ \E r \in {build_node(config, disk, fresh, FALSE)} :
       /\ configured' = Some(Configured(config, PersistOpen(disk, config.persist), r.res))
       /\ disk' = r.files
  /\ UNCHANGED outsideConfig

\* The result of build_node is dropped, as in default_config_buildable and
\* node_must_have_roles; dropping a Node drops its Persist.
DropBuiltStep ==
  /\ \E b \in configured :
       disk' = IF b.res.kind = "Ok"
               THEN PersistFlush(Unwrap(b.res.val).persist, disk, FALSE)
               ELSE disk
  /\ configured' = None
  /\ UNCHANGED outsideConfig

\* The persistence file is removed.
RemoveFileStep(path) ==
  /\ configured = None
  /\ disk[path] # None
  /\ disk' = [disk EXCEPT ![path] = None]
  /\ UNCHANGED <<configured, outsideConfig>>

\* Something else overwrites the persistence file.
OverwriteFileStep(path, bytes) ==
  /\ configured = None
  /\ disk' = [disk EXCEPT ![path] = Some(bytes)]
  /\ UNCHANGED <<configured, outsideConfig>>

ConfigNext ==
  \/ \E config \in Configs, fresh \in Uuids : BuildNodeStep(config, fresh)
  \/ DropBuiltStep
  \/ RemoveFileStep(NodeInfoJson)
  \/ \E bytes \in Garbage : OverwriteFileStep(NodeInfoJson, bytes)

(***************************************************************************)
(* C4 as stated.  When the persistence file opens without error,           *)
(* build_node fails with NoRolesSet if the role set is empty, fails with   *)
(* CommsAndClientOnSamePort if comms port equals client port, and succeeds *)
(* in every other case.                                                    *)
(***************************************************************************)
C4_AsStated ==
  \A b \in configured :
    b.opens =>
      /\ is_empty(b.config.roles) => b.res = Err(NoRolesSet)
      /\ b.config.comms_port = b.config.client_port =>
           b.res = Err(CommsAndClientOnSamePort(b.config.client_port))
      /\ (~is_empty(b.config.roles) /\ b.config.comms_port # b.config.client_port) =>
           b.res.kind = "Ok"

(***************************************************************************)
(* C4, with the order of the checks.  When the persistence file opens      *)
(* without error,                                                          *)
(* build_node fails with NoRolesSet if the role set is empty (whatever the *)
(* ports), fails with CommsAndClientOnSamePort(client port) if the role    *)
(* set is not empty and comms port equals client port, and in every other  *)
(* case returns a Node with the configuration's roles and ports, no comms  *)
(* socket, and the node id the file held, or the fresh one if it held none;*)
(* in particular for the default configuration.                            *)
(***************************************************************************)
C4_BuildNodeChecksRolesFirst ==
  \A b \in configured :
    b.opens =>
      /\ is_empty(b.config.roles) => b.res = Err(NoRolesSet)
      /\ (~is_empty(b.config.roles) /\ b.config.comms_port = b.config.client_port) =>
           b.res = Err(CommsAndClientOnSamePort(b.config.client_port))
      /\ (~is_empty(b.config.roles) /\ b.config.comms_port # b.config.client_port) =>
           /\ b.res.kind = "Ok"
           /\ \A node \in b.res.val :
                /\ node.roles = b.config.roles
                /\ node.comms_port = b.config.comms_port
                /\ node.client_port = b.config.client_port
                /\ node.comms_socket = None
                /\ node.persist.inner.node_id = Some(node.id)
                /\ b.had # None => b.had = Some(node.id)
      /\ b.config = NodeConfigDefault => b.res.kind = "Ok"

\* An empty role set with equal ports was built on a file that opened.
C4_Witness ==
  \E b \in configured :
    /\ b.opens
    /\ is_empty(b.config.roles)
    /\ b.config.comms_port = b.config.client_port
    /\ b.res.kind = "Err"

(***************************************************************************)
(* The node runtime.                                                       *)
(***************************************************************************)
\* The nodes; node n keeps its persistence file at path n.
Nodes == 1..MaxNode

\* NodeError.
NoCluster == [e |-> "NoCluster"]
NodeIoError(kind) == [e |-> "IoError", kind |-> kind]
BuildResponseError(kind) == [e |-> "BuildResponseError", kind |-> kind]
BuildRequestError(kind) == [e |-> "BuildRequestError", kind |-> kind]

\* The task of a process was aborted from outside.
Aborted == [kind |-> "Aborted", val |-> None, err |-> ""]

\* Cluster::new with the fresh id as the manager.
ClusterNew_FreshManager(manager, fresh) ==
  [id |-> fresh, manager |-> fresh, members |-> <<>>]

\* Cluster::new(manager); fresh is what Uuid::new_v4() returns.
ClusterNew(manager, fresh) == [id |-> fresh, manager |-> manager, members |-> <<>>]

\* Node::is_manager.
is_manager(node) ==
  IF node.persist.inner.node_id = None \/ node.persist.inner.cluster = None THEN FALSE
  ELSE Unwrap(node.persist.inner.node_id) = Unwrap(node.persist.inner.cluster).manager

\* self.persist.cluster().map(|c| c.manager()).
ManagerOf(node) ==
  IF node.persist.inner.cluster = None THEN None
  ELSE Some(Unwrap(node.persist.inner.cluster).manager)

\* The condition of handle_connect's if: the authorization gate.
Authorized(node, request) ==
  is_manager(node) \/ request.node = ManagerOf(node)

\* Node::request_builder.
request_builder(node) == [RequestBuilderNew EXCEPT !.node = Some(node.id)]

\* join_cluster returning a cluster of its own making, with a new id.
join_cluster_StartsFresh(node, cluster) ==
  IF cluster.manager = node.id /\ has_role(node.roles, "ClusterManager")
  THEN Ok(ClusterNew(node.id, cluster.id + MaxNode))
  ELSE Panicked("not yet implemented: joining existing clusters not yet implemented")

\* Node::join_cluster.
join_cluster(node, cluster) ==
  IF cluster.manager = node.id /\ has_role(node.roles, "ClusterManager")
  THEN Ok(cluster)
  ELSE Panicked("not yet implemented: joining existing clusters not yet implemented")

\* Node::start_cluster: its result, and the Persist and files it leaves.
start_cluster(node, files, fresh, rev) ==
  [res |-> Ok(ClusterNew(node.id, fresh)),
   s |-> PersistSetCluster(node.persist, files, ClusterNew(node.id, fresh), rev)]

\* Node::run up to the choice of the cluster.
RunCluster(node, files, fresh, rev) ==
  IF node.persist.inner.cluster # None
  THEN [res |-> join_cluster(node, Unwrap(node.persist.inner.cluster)),
        s |-> Left(node.persist, files)]
  ELSE IF has_role(node.roles, "ClusterManager")
  THEN start_cluster(node, files, fresh, rev)
  ELSE [res |-> Err(NoCluster), s |-> Left(node.persist, files)]

\* Node::run from TcpListener::bind on; bound: the addresses listened on.
\* The result is Ok(local_addr), with the Node that main_loop then owns,
\* or an error, the Node dropped and its Persist flushed by Drop.
RunBind(node, s, bound, rev) ==
  IF node.comms_port \in bound
  THEN [res |-> Err(NodeIoError("AddrInUse")), node |-> None,
        files |-> PersistFlush(s.p, s.files, rev)]
  ELSE [res |-> Ok(node.comms_port),
        node |-> Some([node EXCEPT !.persist = s.p,
                                   !.comms_socket = Some(node.comms_port)]),
        files |-> s.files]

\* Node::run from the chosen cluster d on.
RunClustered(node, d, bound, rev) ==
  IF d.res.kind # "Ok"
  THEN [res |-> d.res, node |-> None, files |-> PersistFlush(d.s.p, d.s.files, rev)]
  ELSE RunBind(node, PersistSetCluster(d.s.p, d.s.files, Unwrap(d.res.val), rev),
               bound, rev)

\* Node::run.
run(node, files, fresh, bound, rev) ==
  RunClustered(node, RunCluster(node, files, fresh, rev), bound, rev)

\* get_response answering GetInfo without the cluster.
get_response_NoCluster(node, req) ==
  IF req.body = Ping
  THEN ResponseBuilderFinish([ResponseBuilderNew EXCEPT !.body = Some(Pong)])
  ELSE ResponseBuilderFinish(
         [ResponseBuilderNew EXCEPT !.body = Some(NodeInfo(node.id, None))])

\* Node::get_response for Ping and GetInfo.
get_response(node, req) ==
  IF req.body = Ping
  THEN ResponseBuilderFinish([ResponseBuilderNew EXCEPT !.body = Some(Pong)])
  ELSE ResponseBuilderFinish(
         [ResponseBuilderNew EXCEPT
            !.body = Some(NodeInfo(node.id, node.persist.inner.cluster))])

\* The configurations the model's nodes are built from: node n on path n,
\* the first node with every role or without ClusterManager, on the first
\* port; the others with every role, on any port.
RunRoleSets == {RoleSetDefault, {"Client", "Data"}}
RunConfigs(n) ==
  {NodeConfig(n, roles, comms_port, DEFAULT_CLIENT_PORT) :
     roles \in IF n = 1 THEN RunRoleSets ELSE {RoleSetDefault},
     comms_port \in IF n = 1 THEN {1} ELSE Ports}

\* A process of the model: st is "none" (no process), "built" (build_node
\* returned the Node) or "running" (run returned the address; main_loop
\* owns the Node); handling is where handle_connect stands inside a
\* ConnectToCluster.
NoProcess == [st |-> "none", node |-> None, handling |-> None]

\* The events.  build_node returned res in a process of node n.  run,
\* given node with listeners on bound, returned res.  A response, res, was
\* written by node n to the connection whose request bytes were req; node
\* is the Node as it was when the gate was evaluated.  The process of node
\* n came to its end with res, which is not Ok, handling the connection
\* whose request bytes were req (none if it was handling none).
BuildEvent(n, res) ==
  [e |-> "build_node", n |-> n, node |-> None, bound |-> {}, req |-> <<>>, res |-> res]
RunEvent(n, node, bound, res) ==
  [e |-> "run", n |-> n, node |-> Some(node), bound |-> bound, req |-> <<>>, res |-> res]
AnswerEvent(n, node, req, response) ==
  [e |-> "answer", n |-> n, node |-> Some(node), bound |-> {}, req |-> req,
   res |-> Ok(response)]
EndEvent(n, node, req, res) ==
  [e |-> "end", n |-> n, node |-> Some(node), bound |-> {}, req |-> req, res |-> res]

\* A connection slot: st is "free", "queued" (connected, request written,
\* not accepted yet), "accepted" or "closed" (by the server, and not read
\* to its end yet by the node that made it); to is the address, server the
\* node listening there, from the node that connected (0: another client,
\* or a node that is gone); req and resp are the bytes written each way.
NoConn ==
  [st |-> "free", to |-> 0, server |-> 0, from |-> 0, req |-> <<>>, resp |-> <<>>]
\* The slots: the first for the connections of other clients, then one
\* per node for the connection its send_to_node makes.
ClientSlots == 1..MaxClient
OutSlot(n) == MaxClient + n
ConnIds == 1..(MaxClient + MaxNode)

NodeIdle ==
  /\ nodes = [n \in Nodes |-> NoProcess]
  /\ conns = [c \in ConnIds |-> NoConn]
  /\ event = None

\* The addresses with a listener, and the node listening on an address.
Bound == {Unwrap(Unwrap(nodes[n].node).comms_socket) : n \in {m \in Nodes : nodes[m].st = "running"}}
ListenerAt(addr) ==
  {n \in Nodes : nodes[n].st = "running" /\ Unwrap(nodes[n].node).comms_socket = Some(addr)}

\* The server closes a connection, having written resp or nothing: the
\* node that made it will read that; a connection nobody reads is gone.
Closed(conn, resp) ==
  IF conn.from = 0 THEN NoConn ELSE [conn EXCEPT !.st = "closed", !.resp = resp]

\* The connections once node n is gone: those to its listener are closed,
\* those it made have nobody reading them any more.
ConnsAfterStop(cs, n) ==
  [c \in ConnIds |->
     IF cs[c].st \in {"queued", "accepted"} /\ cs[c].server = n
     THEN Closed([cs[c] EXCEPT !.from = IF @ = n THEN 0 ELSE @], <<>>)
     ELSE IF cs[c].st = "closed" /\ cs[c].from = n THEN NoConn
     ELSE IF cs[c].st # "free" /\ cs[c].from = n THEN [cs[c] EXCEPT !.from = 0]
     ELSE cs[c]]

\* The request bytes of the connection node n is handling, if any.
HandledBy(n) ==
  IF nodes[n].handling = None THEN <<>> ELSE conns[Unwrap(nodes[n].handling).conn].req

\* The iteration orders the members of the cluster held by holder (a
\* Node or a Persist, if any) can be written in; one if there are fewer
\* than two members.
OrdersIn(holder) ==
  IF \E h \in holder :
       \E cluster \in (IF "persist" \in DOMAIN h THEN h.persist ELSE h).inner.cluster :
         Cardinality(DOMAIN cluster.members) >= 2
  THEN BOOLEAN ELSE {FALSE}

\* The process of node n ends, and Drop for Persist writes a record
\* without the cluster.
Stops_ForgetsCluster(n, req, res, rev) ==
  /\ nodes' = [nodes EXCEPT ![n] = NoProcess]
  /\ conns' = ConnsAfterStop(conns, n)
  /\ event' = Some(EndEvent(n, Unwrap(nodes[n].node), req, res))
  /\ disk' = PersistFlush([Unwrap(nodes[n].node).persist EXCEPT !.inner.cluster = None],
                          disk, rev)

\* The process of node n ends with res; the Node is dropped, and Drop for
\* Persist flushes.
Stops(n, req, res, rev) ==
  /\ nodes' = [nodes EXCEPT ![n] = NoProcess]
  /\ conns' = ConnsAfterStop(conns, n)
  /\ event' = Some(EndEvent(n, Unwrap(nodes[n].node), req, res))
  /\ disk' = PersistFlush(Unwrap(nodes[n].node).persist, disk, rev)

\* What Uuid::new_v4() returns when called for the node id of node n:
\* one id when the file of n does not exist yet (the first boot), another
\* on a call made when it does; and what it returns for the id of the
\* cluster node n starts.  No two of these are equal.
FreshNodeId(n, files) == IF files[n] = None THEN n ELSE 2 * MaxNode + n
FreshClusterId(n) == MaxNode + n

\* config.build_node() in a new process of node n.
BuildNode(n, config) ==
  /\ nodes[n].st = "none"
  /\ \E o \in {PersistOpen(disk, config.persist)} :
     \E rev \in OrdersIn(o.val) :
     \E r \in {BuildOpened(config, disk, FreshNodeId(n, disk), rev, o)} :
       /\ nodes' = [nodes EXCEPT ![n] =
                      IF r.res.kind = "Ok"
                      THEN [st |-> "built", node |-> r.res.val, handling |-> None]
                      ELSE NoProcess]
       /\ disk' = r.files
       /\ event' = Some(BuildEvent(n, r.res))
  /\ UNCHANGED <<conns, outsideNode>>

\* node.run().await in the process of node n.
Run(n) ==
  /\ nodes[n].st = "built"
  /\ \E node \in nodes[n].node :
     \E rev \in OrdersIn(nodes[n].node) :
     \E r \in {run(node, disk, FreshClusterId(n), Bound, rev)} :
       /\ nodes' = [nodes EXCEPT ![n] =
                      IF r.res.kind = "Ok"
                      THEN [st |-> "running", node |-> r.node, handling |-> None]
                      ELSE NoProcess]
       /\ disk' = r.files
       /\ event' = Some(RunEvent(n, node, Bound, r.res))
  /\ UNCHANGED <<conns, outsideNode>>

\* The process of node n is ended from outside (ctrl-c aborts the task, or
\* the Node is dropped before run).
Abort(n) ==
  /\ nodes[n].st \in {"built", "running"}
  /\ \E rev \in OrdersIn(nodes[n].node) : Stops(n, HandledBy(n), Aborted, rev)
  /\ UNCHANGED outsideNode

\* What clients other than the model's nodes send: well-formed requests
\* with any origin, and bytes that are no frame.
Origins == 1..MaxOrigin
ClientRequests ==
  {MkRequest(origin, <<>>, body) :
     origin \in Opt(Origins),
     body \in {Ping, GetInfo} \cup {ConnectToCluster(a) : a \in Ports}}
\* A header cut short; a wrong magic number; a length below the header's.
BadFrames ==
  {<<0, 0, 0>>,
   write_u64(BASE_FRAME_SIZE) \o Zeros(RESERVED_SIZE) \o Zeros(MAGIC_NUMBER_SIZE),
   write_u64(BASE_FRAME_SIZE - 1) \o Zeros(RESERVED_SIZE) \o MAGIC_NUMBER}
\* Two requests written one after the other to the same connection.
TwoRequests ==
  write_frame(MkRequest(None, <<>>, Ping), FALSE)
    \o write_frame(MkRequest(None, <<>>, GetInfo), FALSE)
ClientFrames ==
  {write_frame(v, FALSE) : v \in ClientRequests} \cup BadFrames \cup {TwoRequests}

\* The lowest free client slot, if any.
FreeSlot ==
  IF \E c \in ClientSlots : conns[c].st = "free"
  THEN Some(CHOOSE c \in ClientSlots :
              conns[c].st = "free" /\ \A d \in 1..(c - 1) : conns[d].st # "free")
  ELSE None

\* A connection just made to the listener at addr, with its request written.
NewConn(addr, from, bytes) ==
  [st |-> "queued", to |-> addr, server |-> CHOOSE n \in ListenerAt(addr) : TRUE,
   from |-> from, req |-> bytes, resp |-> <<>>]

\* A client connects to a listener and writes its bytes.
ClientSend(addr, bytes) ==
  /\ ListenerAt(addr) # {}
  /\ \E c \in FreeSlot : conns' = [conns EXCEPT ![c] = NewConn(addr, 0, bytes)]
  /\ event' = None
  /\ UNCHANGED <<nodes, disk, outsideNode>>

\* What happens to a call of send_to_node: the timeout elapses first; the
\* connection is refused; the transport reports a reset of the connection;
\* or the peer closes the connection having written bytes.
Happened(what, bytes) == [what |-> what, bytes |-> bytes]
TimedOut == Happened("timeout", <<>>)
Refused == Happened("refused", <<>>)
WasReset == Happened("reset", <<>>)
Replied(bytes) == Happened("closed", bytes)

\* What read_frame::<Response> returns to send_to_node, as an io::Result.
ReadResult(r) ==
  IF r.kind = "Ok" THEN Ok(Unwrap(r.val))
  ELSE IF r.kind = "Err" THEN Err(r.err)
  ELSE Panicked(r.why)

\* send_to_node: the io::Result<Response> it returns, an error being the
\* ErrorKind of the io::Error.
send_to_node(happened) ==
  IF happened.what = "timeout" THEN Err("ConnectionReset")
  ELSE IF happened.what = "refused" THEN Err("ConnectionRefused")
  ELSE IF happened.what = "reset" THEN Err("ConnectionReset")
  ELSE ReadResult(read_frame(happened.bytes, "Response"))

\* What handle_connect does next: it returns an error or panics (res), it
\* answers, or it sends a request of its own and waits.
DoStop(res) == [do |-> "stop", res |-> res]
DoAnswer(response) == [do |-> "answer", response |-> response]
DoSend(request, addr, phase) ==
  [do |-> "send", request |-> request, addr |-> addr, phase |-> phase]

\* send_request(self.request_builder().body(body).finish()?, addr).
SendRequest(node, body, addr, phase) ==
  IF RequestBuilderFinish([request_builder(node) EXCEPT !.body = Some(body)]).kind # "Ok"
  THEN DoStop(Err(BuildRequestError(
         RequestBuilderFinish([request_builder(node) EXCEPT !.body = Some(body)]).err)))
  ELSE DoSend(Unwrap(RequestBuilderFinish(
                       [request_builder(node) EXCEPT !.body = Some(body)]).val),
              addr, phase)

\* get_response(request) up to its first await.
Dispatch(node, request) ==
  IF request.body.t = "ConnectToCluster"
  THEN SendRequest(node, Ping, request.body.socket_addr, "ping")
  ELSE IF get_response(node, request).kind # "Ok"
  THEN DoStop(Err(BuildResponseError(get_response(node, request).err)))
  ELSE DoAnswer(Unwrap(get_response(node, request).val))

\* handle_connect from the frame read, r, to its first await or its end.
handle_connect(node, r) ==
  IF r.kind = "Err" THEN DoStop(Err(NodeIoError(r.err)))
  ELSE IF r.kind = "Panic" THEN DoStop(Panicked(r.why))
  ELSE IF Authorized(node, Unwrap(r.val))
  THEN Dispatch(node, Unwrap(r.val))
  ELSE DoStop(Panicked("not yet implemented: forwarding to cluster manager"))

\* handle_connect going back, the response written, to read the next
\* request from the same connection.
Answers_KeepsOpen(n, c, response, rev) ==
  /\ conns' = [conns EXCEPT ![c] = [@ EXCEPT !.st = "queued",
                                             !.resp = @ \o write_frame(response, rev)]]
  /\ nodes' = [nodes EXCEPT ![n].handling = None]
  /\ event' = Some(AnswerEvent(n, Unwrap(nodes[n].node), conns[c].req, response))
  /\ UNCHANGED disk

\* The response is written to connection c, and handle_connect returns;
\* the connection is dropped.
Answers(n, c, response, rev) ==
  /\ conns' = [conns EXCEPT ![c] = Closed(@, write_frame(response, rev))]
  /\ nodes' = [nodes EXCEPT ![n].handling = None]
  /\ event' = Some(AnswerEvent(n, Unwrap(nodes[n].node), conns[c].req, response))
  /\ UNCHANGED disk

\* send_to_node(request, addr): connect, write the frame, and wait for the
\* response on connection slot o, while connection c is being handled;
\* gate is the Node as it was when the gate was evaluated.
Sends(n, c, o, h, gate, rev) ==
  IF ListenerAt(h.addr) = {}
  THEN Stops(n, conns[c].req, Err(NodeIoError(send_to_node(Refused).err)), rev)
  ELSE /\ conns' = [conns EXCEPT
                      ![c] = [@ EXCEPT !.st = "accepted"],
                      ![o] = NewConn(h.addr, n, write_frame(h.request, rev))]
       /\ nodes' = [nodes EXCEPT ![n].handling =
                      Some([conn |-> c, phase |-> h.phase, out |-> o, addr |-> h.addr,
                            gate |-> gate])]
       /\ event' = None
       /\ UNCHANGED disk

\* main_loop accepting a connection while handle_connect is suspended in
\* a request of its own for an earlier one.
HandleConnect_Concurrent(n, c) ==
  /\ nodes[n].st = "running"
  /\ conns[c].st = "queued"
  /\ conns[c].server = n
  /\ \E rev \in OrdersIn(nodes[n].node) :
     \E r \in {read_frame(conns[c].req, "Request")} :
     \E h \in {handle_connect(Unwrap(nodes[n].node), r)} :
       IF h.do = "stop" THEN Stops(n, conns[c].req, h.res, rev)
       ELSE IF h.do = "answer" THEN Answers(n, c, h.response, rev)
       ELSE /\ conns[OutSlot(n)].st = "free"
            /\ Sends(n, c, OutSlot(n), h, Unwrap(nodes[n].node), rev)
  /\ UNCHANGED outsideNode

\* One step of main_loop: accept a connection and run handle_connect to
\* its first await or its end; an error or a panic ends the process.
HandleConnect(n, c) ==
  /\ nodes[n].st = "running"
  /\ nodes[n].handling = None
  /\ conns[c].st = "queued"
  /\ conns[c].server = n
  /\ \E rev \in OrdersIn(nodes[n].node) :
     \E r \in {read_frame(conns[c].req, "Request")} :
     \E h \in {handle_connect(Unwrap(nodes[n].node), r)} :
       IF h.do = "stop" THEN Stops(n, conns[c].req, h.res, rev)
       ELSE IF h.do = "answer" THEN Answers(n, c, h.response, rev)
       ELSE /\ conns[OutSlot(n)].st = "free"
            /\ Sends(n, c, OutSlot(n), h, Unwrap(nodes[n].node), rev)
  /\ UNCHANGED outsideNode

\* get_response(ConnectToCluster) from the response r to one of its two
\* requests on: after the Ping, GetInfo is sent; after GetInfo, the
\* peer's cluster is joined into the node's own.
DoMerge(cluster) == [do |-> "merge", cluster |-> cluster]
\* get_response(ConnectToCluster) sending GetInfo whatever became of the Ping.
connect_to_cluster_IgnoresPing(node, handling, r) ==
  IF handling.phase = "ping"
  THEN SendRequest(node, GetInfo, handling.addr, "info")
  ELSE IF r.kind = "Err" THEN DoStop(Err(NodeIoError(r.err)))
  ELSE IF r.kind = "Panic" THEN DoStop(Panicked(r.why))
  ELSE IF Unwrap(r.val).body.t # "NodeInfo"
  THEN DoStop(Panicked("could not get node info"))
  ELSE IF Unwrap(r.val).body.cluster = None
  THEN DoStop(Panicked("node is not part of any cluster"))
  ELSE DoMerge(Unwrap(Unwrap(r.val).body.cluster))
connect_to_cluster(node, handling, r) ==
  IF r.kind = "Err" THEN DoStop(Err(NodeIoError(r.err)))
  ELSE IF r.kind = "Panic" THEN DoStop(Panicked(r.why))
  ELSE IF handling.phase = "ping"
  THEN SendRequest(node, GetInfo, handling.addr, "info")
  ELSE IF Unwrap(r.val).body.t # "NodeInfo"
  THEN DoStop(Panicked("could not get node info"))
  ELSE IF Unwrap(r.val).body.cluster = None
  THEN DoStop(Panicked("node is not part of any cluster"))
  ELSE DoMerge(Unwrap(Unwrap(r.val).body.cluster))

\* modify_cluster(|c| c.join_into(&cluster)), then Response::ok() is
\* written to the connection being handled.
Merges(n, g, cluster, rev) ==
  \E m \in {PersistModifyCluster(Unwrap(nodes[n].node).persist, disk,
                                 CallJoinInto(cluster), rev)} :
    IF m.panicked
    THEN Stops(n, conns[g.conn].req, Panicked("not yet implemented"), rev)
    ELSE /\ conns' = [conns EXCEPT ![g.conn] = Closed(@, write_frame(ResponseOk, rev)),
                                   ![g.out] = NoConn]
         /\ nodes' = [nodes EXCEPT ![n].handling = None,
                                   ![n].node = Some([Unwrap(@) EXCEPT !.persist = m.p])]
         /\ disk' = m.files
         /\ event' = Some(AnswerEvent(n, g.gate, conns[g.conn].req, ResponseOk))

\* The peer has closed the connection of send_to_node: read_frame returns
\* the response, or an error if none was written.
SendToNodeReturns(n) ==
  /\ nodes[n].st = "running"
  /\ \E g \in nodes[n].handling :
       /\ conns[g.out].st = "closed"
       /\ \E rev \in OrdersIn(nodes[n].node) :
          \E r \in {read_frame(conns[g.out].resp, "Response")} :
          \E h \in {connect_to_cluster(Unwrap(nodes[n].node), g, r)} :
            IF h.do = "stop" THEN Stops(n, conns[g.conn].req, h.res, rev)
            ELSE IF h.do = "send" THEN Sends(n, g.conn, g.out, h, g.gate, rev)
            ELSE Merges(n, g, h.cluster, rev)
  /\ UNCHANGED outsideNode

\* The timeout of send_to_node elapses before the response is there.
SendToNodeTimeout(n) ==
  /\ nodes[n].st = "running"
  /\ \E g \in nodes[n].handling : conns[g.out].st # "closed"
  /\ \E rev \in OrdersIn(nodes[n].node) :
       Stops(n, HandledBy(n), Err(NodeIoError(send_to_node(TimedOut).err)), rev)
  /\ UNCHANGED outsideNode

Next ==
  \/ \E n \in Nodes : \E config \in RunConfigs(n) : BuildNode(n, config)
  \/ \E n \in Nodes : Run(n)
  \/ \E n \in Nodes : Abort(n)
  \/ \E addr \in Ports, bytes \in ClientFrames : ClientSend(addr, bytes)
  \/ \E n \in Nodes, c \in ConnIds : HandleConnect(n, c)
  \/ \E n \in Nodes : SendToNodeReturns(n)
  \/ \E n \in Nodes : SendToNodeTimeout(n)

\* The cluster a node with id `id` starts in process n.
Singleton(n, id) == [id |-> FreshClusterId(n), manager |-> id, members |-> <<>>]

\* The last step was run on a node with (eligible) or without the
\* ClusterManager role whose store held no cluster.
RanWithoutCluster(e, eligible) ==
  /\ e.e = "run"
  /\ \A node \in e.node :
       /\ ("ClusterManager" \in node.roles) = eligible
       /\ node.persist.inner.cluster = None

\* C7: run on a node that has the ClusterManager role and no persisted
\* cluster leaves, in the store's file, a cluster with no members whose
\* manager is the node's own id; and, the comms port being free to bind, it
\* succeeds, the running node holding that cluster and is_manager being
\* true.  (With the port taken, run returns the error of bind.)
C7_RunStartsSingletonCluster ==
  \A e \in event :
    RanWithoutCluster(e, TRUE) =>
      \A node \in e.node :
        /\ \E o \in {PersistOpen(disk, node.persist.path)} :
             /\ o.kind = "Ok"
             /\ Unwrap(o.val).inner.cluster = Some(Singleton(e.n, node.id))
             /\ Unwrap(o.val).inner.node_id = Some(node.id)
        /\ IF node.comms_port \in e.bound
           THEN /\ e.res.kind = "Err"
                /\ e.res.err = NodeIoError("AddrInUse")
           ELSE /\ e.res = Ok(node.comms_port)
                /\ nodes[e.n].st = "running"
                /\ \A running \in nodes[e.n].node :
                     /\ running.persist.inner.cluster = Some(Singleton(e.n, node.id))
                     /\ running.persist.inner.node_id = Some(node.id)
                     /\ running.id = node.id

\* run has just succeeded on an eligible node without a cluster.
C7_Witness ==
  \E e \in event :
    /\ RanWithoutCluster(e, TRUE)
    /\ e.res.kind = "Ok"
    /\ nodes[e.n].st = "running"
    /\ is_manager(Unwrap(nodes[e.n].node))

\* C8: run on a node that has not the ClusterManager role and no persisted
\* cluster returns Err(NoCluster); no cluster is in the store's file, and
\* the node listens nowhere.
C8_RunWithoutClusterFails ==
  \A e \in event :
    RanWithoutCluster(e, FALSE) =>
      \A node \in e.node :
        /\ e.res.kind = "Err"
        /\ e.res.err = NoCluster
        /\ nodes[e.n] = NoProcess
        /\ Bound = e.bound
        /\ \E o \in {PersistOpen(disk, node.persist.path)} :
             /\ o.kind = "Ok"
             /\ Unwrap(o.val).inner.cluster = None

\* run has just failed on a node without the role and without a cluster.
C8_Witness ==
  \E e \in event :
    /\ RanWithoutCluster(e, FALSE)
    /\ e.res.kind = "Err"
    /\ nodes[e.n] = NoProcess

\* C9: a response is written to a connection only if, when the gate was
\* evaluated, the node was the manager of its persisted cluster or the
\* origin the request declares was that cluster's manager; a request that
\* declares no origin is answered by a manager only.
C9_AnsweredOnlyThroughGate ==
  \A e \in event :
    e.e = "answer" =>
      \E r \in {read_frame(e.req, "Request")} :
        /\ r.kind = "Ok"
        /\ \A node \in e.node, request \in r.val :
             LET inner == node.persist.inner
                 manages == /\ inner.node_id # None
                            /\ inner.cluster # None
                            /\ Unwrap(inner.node_id) = Unwrap(inner.cluster).manager
             IN /\ \/ manages
                   \/ /\ inner.cluster # None
                      /\ request.node = Some(Unwrap(inner.cluster).manager)
                /\ request.node = None => manages

\* A response has just been written to a request that declares no origin.
C9_Witness ==
  \E e \in event :
    /\ e.e = "answer"
    /\ \E r \in {read_frame(e.req, "Request")} :
         /\ r.kind = "Ok"
         /\ Unwrap(r.val).node = None
    /\ is_manager(Unwrap(e.node))

\* C10: a Ping whose declared origin is neither the receiving node's id
\* nor the manager of the receiving node's cluster is not answered with
\* Pong.
C10_StrangerPingRefused ==
  \A e \in event :
    e.e = "answer" =>
      \E r \in {read_frame(e.req, "Request")} :
        \A node \in e.node, request \in r.val :
        \A origin \in request.node :
          (/\ request.body = Ping
           /\ origin # node.id
           /\ Some(origin) # ManagerOf(node))
          => Unwrap(e.res.val).body # Pong

\* C12: the response written to a GetInfo request is NodeInfo with the
\* node's own id and the node's persisted cluster, as the node holds it and
\* as its file holds it; that cluster is present and its manager is the
\* node's own id.
C12_GetInfoAnswersNodeInfo ==
  \A e \in event :
    e.e = "answer" =>
      \E r \in {read_frame(e.req, "Request")} :
        \A node \in e.node, request \in r.val :
          request.body = GetInfo =>
            \E o \in {PersistOpen(disk, node.persist.path)} :
              /\ e.res.kind = "Ok"
              /\ \A response \in e.res.val :
                   /\ response.body.t = "NodeInfo"
                   /\ response.body.node = node.id
                   /\ response.body.cluster = node.persist.inner.cluster
                   /\ o.kind = "Ok"
                   /\ response.body.cluster = Unwrap(o.val).inner.cluster
                   /\ \E cluster \in response.body.cluster : cluster.manager = node.id

\* A GetInfo request has just been answered.
C12_Witness ==
  \E e \in event :
    /\ e.e = "answer"
    /\ \E r \in {read_frame(e.req, "Request")} :
         r.kind = "Ok" /\ Unwrap(r.val).body = GetInfo
    /\ Unwrap(e.res.val).body.t = "NodeInfo"

\* Node n, handling a ConnectToCluster, has the answer to its GetInfo
\* before it: NodeInfo from node `peer` with the cluster `theirs`.
InfoReceived(n, peer, theirs) ==
  /\ nodes[n].st = "running"
  /\ \E g \in nodes[n].handling :
       /\ g.phase = "info"
       /\ conns[g.out].st = "closed"
       /\ \E r \in {read_frame(conns[g.out].resp, "Response")} :
            /\ r.kind = "Ok"
            /\ Unwrap(r.val).body.t = "NodeInfo"
            /\ Unwrap(r.val).body.node = peer
            /\ Unwrap(r.val).body.cluster = Some(theirs)

\* The step is one of node n's own, and not the end of its task from
\* outside.
StepOf(n) ==
  /\ nodes'[n] # nodes[n]
  /\ \A e \in event' : e.res.kind # "Aborted"

\* The ids that can be reached through a cluster.
ReachableIn(cluster) == {cluster.manager} \cup DOMAIN cluster.members

\* C13: node B, manager of its own cluster, handling ConnectToCluster with
\* the address of node A, manager of its own cluster, and having received
\* A's NodeInfo, answers Ok; its persisted cluster then holds both A and
\* B, and its manager is one of the two managers.
C13_ConnectToClusterMerges ==
  [][\A n \in Nodes, peer \in Uuids,
        theirs \in {Singleton(m, id) : m \in Nodes, id \in Uuids} :
       (InfoReceived(n, peer, theirs) /\ StepOf(n)) =>
         /\ \E e \in event' :
              /\ e.e = "answer"
              /\ e.n = n
              /\ e.res = Ok(ResponseOk)
         /\ nodes'[n].st = "running"
         /\ \E o \in {PersistOpen(disk', n)} :
              /\ o.kind = "Ok"
              /\ \E merged \in Unwrap(o.val).inner.cluster :
                   /\ {Unwrap(nodes[n].node).id, peer} \subseteq ReachableIn(merged)
                   /\ merged.manager \in {Unwrap(nodes[n].node).id, theirs.manager}
    ]_vars

\* C16: while the handling of one connection is suspended in a request of
\* its own, the node can accept a further connection made to its listener
\* and handle it: also the connection the node itself made to its own
\* address, or the connection of a peer that is itself waiting for it.
C16_AcceptsWhileSuspended ==
  \A n \in Nodes, c \in ConnIds :
    (/\ nodes[n].st = "running"
     /\ nodes[n].handling # None
     /\ conns[c].st = "queued"
     /\ conns[c].server = n)
    => ENABLED HandleConnect(n, c)

\* C18: a connection whose bytes are no well-formed Request frame gets no
\* response, and handling it does not end the node: the node is still
\* running, to answer the requests of later connections.
C18_BadFrameConfined ==
  \A e \in event :
    \A r \in {read_frame(e.req, "Request")} :
      (/\ e.e \in {"answer", "end"}
       /\ e.req # <<>>
       /\ r.kind # "Ok"
       /\ e.res.kind # "Aborted")
      => /\ e.e # "answer"
         /\ nodes[e.n].st = "running"

\* C19: when handling a ConnectToCluster does not get as far as the merge
\* (the peer is not reachable or does not answer in time, or its answer is
\* not a NodeInfo with a cluster), the failure is an error value, not a
\* panic, and the node is still running.
C19_JoinFailureIsReported ==
  \A e \in event :
    \A r \in {read_frame(e.req, "Request")} :
      (/\ e.e = "end"
       /\ r.kind = "Ok"
       /\ e.res.kind # "Aborted"
       /\ ~(e.res.kind = "Panic" /\ e.res.err = "not yet implemented"))
      => \A request \in r.val :
           request.body.t = "ConnectToCluster" =>
             /\ e.res.kind = "Err"
             /\ nodes[e.n].st = "running"

\* Node n, handling a ConnectToCluster, has a response to its Ping before it.
PingAnswered(n) ==
  \E g \in nodes[n].handling :
    /\ g.phase = "ping"
    /\ conns[g.out].st = "closed"
    /\ read_frame(conns[g.out].resp, "Response").kind = "Ok"

\* Node n has the NodeInfo of some peer, with a cluster, before it.
InfoReceivedBy(n) ==
  \E peer \in Uuids, theirs \in {Singleton(m, id) : m \in Nodes, id \in Uuids} :
    InfoReceived(n, peer, theirs)

\* In the step, node n calls join_into on its cluster (and panics there),
\* or writes Ok to the connection it handles.
MergeStep(n) ==
  /\ nodes'[n] # nodes[n]
  /\ \E e \in event' :
       /\ e.n = n
       /\ \/ e.e = "end" /\ e.res.kind = "Panic" /\ e.res.err = "not yet implemented"
          \/ e.e = "answer" /\ e.res.kind = "Ok" /\ e.res.val = Some(ResponseOk)

\* The body of the request in the frame `bytes`, if it is one.
BodyIn(bytes) ==
  {Unwrap(r.val).body : r \in {x \in {read_frame(bytes, "Request")} : x.kind = "Ok"}}

\* The cluster in the file of node n.
ClusterOnDisk(files, n) ==
  {Unwrap(o.val).inner.cluster : o \in {x \in {PersistOpen(files, n)} : x.kind = "Ok"}}

\* C20: handling ConnectToCluster{address}, the node first sends Ping to
\* address; it sends GetInfo only with a response to the Ping before it; it
\* merges, and its cluster changes, only with a NodeInfo that carries a
\* cluster before it; when it writes Ok its file holds the cluster it has;
\* and if the Ping fails the handling ends with no GetInfo sent and the
\* cluster in the file as it was.
C20_ConnectToClusterInOrder ==
  [][\A n \in Nodes :
       /\ (nodes[n].handling = None /\ nodes'[n].handling # None) =>
            \A g \in nodes'[n].handling :
              /\ g.phase = "ping"
              /\ BodyIn(conns'[g.conn].req) = {ConnectToCluster(g.addr)}
              /\ conns'[g.out].st = "queued"
              /\ conns'[g.out].to = g.addr
              /\ BodyIn(conns'[g.out].req) = {Ping}
       /\ ((\E g \in nodes'[n].handling : g.phase = "info")
            /\ ~(\E g \in nodes[n].handling : g.phase = "info")) =>
            /\ PingAnswered(n)
            /\ \A g \in nodes'[n].handling :
                 /\ conns'[g.out].to = g.addr
                 /\ BodyIn(conns'[g.out].req) = {GetInfo}
                 /\ \A h \in nodes[n].handling : h.addr = g.addr /\ h.conn = g.conn
       /\ MergeStep(n) => InfoReceivedBy(n)
       /\ (/\ nodes[n].st = "running"
           /\ nodes'[n].st = "running"
           /\ Unwrap(nodes'[n].node).persist.inner.cluster
                # Unwrap(nodes[n].node).persist.inner.cluster) => InfoReceivedBy(n)
       /\ (\E e \in event' :
             /\ e.n = n /\ e.e = "answer" /\ nodes'[n] # nodes[n]
             /\ BodyIn(e.req) \subseteq {ConnectToCluster(a) : a \in Ports}
             /\ BodyIn(e.req) # {}) =>
            ClusterOnDisk(disk', n) = {Unwrap(nodes'[n].node).persist.inner.cluster}
       /\ ((\E g \in nodes[n].handling : g.phase = "ping")
            /\ ~PingAnswered(n)
            /\ nodes'[n] # nodes[n]) =>
            /\ nodes'[n] = NoProcess
            /\ conns'[OutSlot(n)].from # n
            /\ ClusterOnDisk(disk', n) = {Unwrap(nodes[n].node).persist.inner.cluster}
    ]_vars

\* A node handling a ConnectToCluster has sent its Ping and then its
\* GetInfo, and has the peer's NodeInfo before it.
C20_Witness == \E n \in Nodes : InfoReceivedBy(n)

\* The connections node n has accepted and not closed yet, in the state cs.
AcceptedAt(cs, n) == {c \in ConnIds : cs[c].st = "accepted" /\ cs[c].server = n}

IdOnDisk(files, n) ==
  {Unwrap(o.val).inner.node_id : o \in {x \in {PersistOpen(files, n)} : x.kind = "Ok"}}

\* The origin of the request node n has written to the connection it made.
OriginSent(cs, n) ==
  {Unwrap(r.val).node :
     r \in {x \in {read_frame(cs[OutSlot(n)].req, "Request")} :
              cs[OutSlot(n)].from = n /\ x.kind = "Ok"}}

\* C22: the node id is generated only when the store holds none, and never
\* changes: a step that changes the node id in the file of a node is a
\* build_node that found none there; a Node, built or running, has the id
\* in its file; the NodeInfo it answers carries that id, and so does every
\* request it sends, as its origin.
C22_NodeIdentityIsStable ==
  [][\A n \in Nodes :
     \A before \in {IdOnDisk(disk, n)}, after \in {IdOnDisk(disk', n)} :
       /\ before # {None} => after = before
       /\ after # before => \E e \in event' : e.e = "build_node" /\ e.n = n
       /\ \A node \in nodes'[n].node :
            /\ after = {Some(node.id)}
            /\ node.persist.inner.node_id = Some(node.id)
       /\ \A e \in event' :
            (/\ e.e = "answer"
             /\ e.n = n
             /\ Unwrap(e.res.val).body.t = "NodeInfo")
            => after = {Some(Unwrap(e.res.val).body.node)}
       /\ OriginSent(conns', n) \subseteq after
    ]_vars

\* build_node has returned a Node on the path of an earlier run: the file
\* holds the cluster that run started.
C22_Witness ==
  \E n \in Nodes :
    /\ nodes[n].st = "built"
    /\ ClusterOnDisk(disk, n) # {None}
    /\ \E e \in event : e.e = "build_node" /\ e.n = n /\ e.res.kind = "Ok"

\* The last step was run on a node whose store held the cluster `held`.
RanWithCluster(e, held) ==
  /\ e.e = "run"
  /\ \A node \in e.node : node.persist.inner.cluster = Some(held)

\* C23: run on a node that has the ClusterManager role and whose store
\* holds a cluster whose manager is the node itself leaves that cluster in
\* the store's file, with the id, manager and members it had; and, the
\* comms port being free to bind, it succeeds, the running node holding
\* that cluster.  (With the port taken, run returns the error of bind.)
C23_RestartKeepsCluster ==
  \A e \in event :
    \A node \in e.node :
      \A held \in node.persist.inner.cluster :
        (/\ RanWithCluster(e, held)
         /\ has_role(node.roles, "ClusterManager")
         /\ held.manager = node.id)
        => /\ ClusterOnDisk(disk, e.n) = {Some(held)}
           /\ IF node.comms_port \in e.bound
              THEN /\ e.res.kind = "Err"
                   /\ e.res.err = NodeIoError("AddrInUse")
              ELSE /\ e.res = Ok(node.comms_port)
                   /\ nodes[e.n].st = "running"
                   /\ \A running \in nodes[e.n].node :
                        running.persist.inner.cluster = Some(held)

\* run has just succeeded on an eligible node whose store held a cluster
\* of which it is the manager.
C23_Witness ==
  \E e \in event :
    \E node \in e.node :
      \E held \in node.persist.inner.cluster :
        /\ RanWithCluster(e, held)
        /\ has_role(node.roles, "ClusterManager")
        /\ held.manager = node.id
        /\ e.res.kind = "Ok"
        /\ nodes[e.n].st = "running"

\* C24: run on a node whose store holds a cluster, whatever the cluster's
\* manager and the node's roles, returns: the bound address, the node then
\* running, or an error value; it does not panic.
C24_RunWithClusterReturns ==
  \A e \in event :
    \A node \in e.node :
      \A held \in node.persist.inner.cluster :
        RanWithCluster(e, held) =>
          \/ e.res.kind = "Ok" /\ nodes[e.n].st = "running"
          \/ e.res.kind = "Err"

\* The response body get_response gives for a request body.
Responds(body, answer) ==
  \/ body = Ping /\ answer = Pong
  \/ body = GetInfo /\ answer.t = "NodeInfo"
  \/ body.t = "ConnectToCluster" /\ answer = RespOk

\* C25: every accepted connection is a one-shot RPC.  A connection once
\* accepted is not read again: it stays with its handler until it is
\* closed.  What is written to a connection is written once, when it is
\* closed, and is one Response frame.  A response is written only to a
\* connection whose first frame was read as a Request that passed the
\* gate, it answers that request, and the connection is closed with it:
\* bytes after the first frame are never read.
C25_OneShotRpc ==
  [][/\ \A c \in ConnIds :
          /\ conns[c].st = "accepted" => conns'[c].st \in {"accepted", "closed", "free"}
          /\ conns'[c].resp # <<>> =>
               /\ conns'[c].st = "closed"
               /\ \E w \in {read_frame(conns'[c].resp, "Response")} :
                    w.kind = "Ok" /\ w.consumed = Len(conns'[c].resp)
          /\ conns'[c].resp # conns[c].resp =>
               \/ conns'[c].resp = <<>>
               \/ conns[c].resp = <<>> /\ conns[c].st \in {"queued", "accepted"}
     /\ \A e \in event' :
          e.e = "answer" =>
            /\ \E r \in {read_frame(e.req, "Request")} :
                 /\ r.kind = "Ok"
                 /\ Authorized(Unwrap(e.node), Unwrap(r.val))
                 /\ Responds(Unwrap(r.val).body, Unwrap(e.res.val).body)
            /\ \E c \in ConnIds :
                 /\ conns[c].st \in {"queued", "accepted"}
                 /\ conns[c].server = e.n
                 /\ conns[c].req = e.req
                 /\ conns'[c].st \in {"closed", "free"}
                 /\ conns'[c].st = "closed" =>
                      \E w \in {read_frame(conns'[c].resp, "Response")} :
                        w.kind = "Ok" /\ w.val = e.res.val
    ]_vars

\* A connection to which two requests were written has been answered: one
\* response, to the first, and the connection is gone.
C25_Witness ==
  \E e \in event :
    /\ e.e = "answer"
    /\ e.req = TwoRequests
    /\ Unwrap(e.res.val).body = Pong
    /\ \A c \in ConnIds : conns[c].req # TwoRequests
    /\ read_frame(TwoRequests, "Request").consumed < Len(TwoRequests)

\* The record in the file of node n: its node id and its cluster.
RecordOnDisk(files, n) ==
  {Unwrap(o.val).inner : o \in {x \in {PersistOpen(files, n)} : x.kind = "Ok"}}

\* C26: once run has succeeded, the record in the file of a node (node id
\* and cluster) changes only in the step of a ConnectToCluster that has
\* the peer's NodeInfo before it and answers Ok.  Every other step leaves
\* it as it was: a Ping or GetInfo answered, a request the gate refuses, a
\* malformed frame, a ConnectToCluster whose Ping or GetInfo fails, and
\* the end of the process.  And a file that holds a cluster holds one ever
\* after.
C26_RecordChangesOnlyByMerge ==
  [][\A n \in Nodes :
     \A before \in {RecordOnDisk(disk, n)}, after \in {RecordOnDisk(disk', n)} :
       /\ (nodes[n].st = "running" /\ after # before) =>
            /\ InfoReceivedBy(n)
            /\ \E e \in event' :
                 /\ e.e = "answer"
                 /\ e.n = n
                 /\ e.res.val = Some(ResponseOk)
                 /\ BodyIn(e.req) \subseteq {ConnectToCluster(a) : a \in Ports}
                 /\ BodyIn(e.req) # {}
       /\ nodes[n].st = "running" =>
            \E inner \in before : inner.node_id # None /\ inner.cluster # None
       /\ (\E inner \in before : inner.cluster # None) =>
            (\E inner \in after : inner.cluster # None)
    ]_vars

\* The process of a running node has ended over a malformed frame, over a
\* refused request or over a failed request of its own, and its file
\* holds the cluster the node had.
C26_Witness ==
  \E e \in event :
    /\ e.e = "end"
    /\ e.req # <<>>
    /\ e.res.kind \in {"Err", "Panic"}
    /\ \A node \in e.node :
         /\ node.persist.inner.cluster # None
         /\ RecordOnDisk(disk, e.n) = {node.persist.inner}


(***************************************************************************)
(* The frame codec over a duplex stream: one side writes a frame, or any   *)
(* bytes at all, and closes; the other side reads one frame.               *)
(***************************************************************************)
\* The bodies written: every request; every response without a cluster
\* under every header map; every NodeInfo with a cluster under empty headers.
FrameBodies ==
  Requests
  \cup {r \in Responses : r.body.t # "NodeInfo" \/ r.body.cluster = None}
  \cup {MkResponse(<<>>, NodeInfo(n, Some(c))) : n \in Uuids, c \in Clusters}

\* Byte strings a peer may send where a frame's encoded body belongs.
GoodBody == Base64Encode(JsonWrite(ToJson(MkRequest(None, <<>>, Ping), FALSE), 0))
RawBodies ==
  {<<>>, GoodBody, SubSeq(GoodBody, 1, Len(GoodBody) - 1), <<61, 61>>,
   Base64Encode(<<123>>), Base64Encode(<<125>>)}
RawMagics ==
  {MAGIC_NUMBER, [MAGIC_NUMBER EXCEPT ![8] = 77], [MAGIC_NUMBER EXCEPT ![1] = 1],
   Zeros(MAGIC_NUMBER_SIZE)}
RawReserved == {Zeros(RESERVED_SIZE), [Zeros(RESERVED_SIZE) EXCEPT ![RESERVED_SIZE] = 1]}
RawLengths(body) ==
  {0, BASE_FRAME_SIZE - 1, BASE_FRAME_SIZE, BASE_FRAME_SIZE + Len(body),
   BASE_FRAME_SIZE + Len(body) + 1, HugeLength}

FrameIdle ==
  /\ frameIn = None
  /\ written = <<>>
  /\ stream = <<>>
  /\ frameOut = None

\* writer.write_frame(Frame::new(v)); rev is the iteration order of the
\* HashMaps inside v.
WriteFrame(v, rev) ==
  /\ written = <<>>
  /\ frameIn' = Some(v)
  /\ written' = write_frame(v, rev)
  /\ stream' = write_frame(v, rev)
  /\ UNCHANGED <<frameOut, outsideFrame>>

\* A peer that does not use write_frame sends a header with any length,
\* reserved and magic fields, any body bytes, and may stop early.
SendBytes(len, reserved, magic, body, keep) ==
  LET bytes == write_u64(len) \o reserved \o magic \o body
      sent == SubSeq(bytes, 1, IF keep < Len(bytes) THEN keep ELSE Len(bytes))
  IN /\ written = <<>>
     /\ written' = sent
     /\ stream' = sent
     /\ UNCHANGED <<frameIn, frameOut, outsideFrame>>

\* reader.read_frame::<ty>().  A panic leaves no result to the caller; the
\* model records it as the result.
ReadFrame(ty) ==
  /\ written # <<>>
  /\ frameOut = None
  /\ LET res == read_frame(stream, ty)
     IN /\ frameOut' = Some([ty |-> ty, res |-> res])
        /\ stream' = SubSeq(stream, res.consumed + 1, Len(stream))
  /\ UNCHANGED <<frameIn, written, outsideFrame>>

FrameNext ==
  \/ \E v \in FrameBodies, rev \in BOOLEAN : WriteFrame(v, rev)
  \/ \E body \in RawBodies, magic \in RawMagics, reserved \in RawReserved :
       \E len \in RawLengths(body) :
         \E keep \in {LEN_SIZE - 1, BASE_FRAME_SIZE - 1, BASE_FRAME_SIZE + Len(body)} :
           SendBytes(len, reserved, magic, body, keep)
  \/ \E ty \in {"Request", "Response"} : ReadFrame(ty)

(***************************************************************************)
(* C1.  Round trip: a Request or Response written by write_frame and read  *)
(* back by read_frame as the same type is returned equal to the original,  *)
(* and the read takes exactly the frame's bytes off the stream.            *)
(***************************************************************************)
C1_RoundTrip ==
  \A v \in frameIn : \A o \in frameOut :
    o.ty = v.ty =>
      /\ o.res.kind = "Ok"
      /\ o.res.val = Some(v)
      /\ o.res.consumed = Len(written)
      /\ stream = <<>>

\* A NodeInfo response carrying a cluster with two members was written
\* with its maps in descending key order and read back.
C1_Witness ==
  \E v \in frameIn : \E o \in frameOut :
    /\ o.ty = v.ty
    /\ v.ty = "Response"
    /\ v.body.t = "NodeInfo"
    /\ \E c \in v.body.cluster : Cardinality(DOMAIN c.members) >= 2
    /\ written = write_frame(v, TRUE)
    /\ written # write_frame(v, FALSE)

\* The magic field of the bytes sent, when the whole header was sent.
SentMagic ==
  IF Len(written) >= BASE_FRAME_SIZE
  THEN Some(SubSeq(written, LEN_SIZE + RESERVED_SIZE + 1, BASE_FRAME_SIZE))
  ELSE None

(***************************************************************************)
(* C2.  A frame whose magic field is not the magic constant is rejected    *)
(* with the malformed-frame error (InvalidData, "magic number is wrong")   *)
(* whatever its length field and body are; no payload is returned and no   *)
(* byte of the body is read or decoded.                                    *)
(***************************************************************************)
C2_BadMagicRejected ==
  \A o \in frameOut : \A m \in SentMagic :
    m # MAGIC_NUMBER =>
      /\ o.res.kind = "Err"
      /\ o.res.err = "InvalidData"
      /\ o.res.why = "magic number is wrong"
      /\ o.res.val = None
      /\ o.res.consumed = BASE_FRAME_SIZE

\* A frame that is well formed but for its magic field was read.
C2_Witness ==
  \E o \in frameOut : \E m \in SentMagic :
    /\ m # MAGIC_NUMBER
    /\ SubSeq(written, BASE_FRAME_SIZE + 1, Len(written)) = GoodBody
    /\ read_u64(SubSeq(written, 1, LEN_SIZE)) = Len(written)
    /\ o.ty = "Request"
    /\ o.res.kind = "Err"

\* C27: read_frame on a header with the right magic number whose length
\* field is less than the size of the header (0..19) returns an error, and
\* no payload: it does not panic at the subtraction that gives the length
\* of the body.
C27_ShortLengthIsAnError ==
  \A o \in frameOut :
    (/\ Len(written) >= BASE_FRAME_SIZE
     /\ SentMagic = {MAGIC_NUMBER}
     /\ read_u64(SubSeq(written, 1, LEN_SIZE)) < BASE_FRAME_SIZE)
    => /\ o.res.kind = "Err"
       /\ o.res.val = None


(***************************************************************************)
(* The authorization gate of handle_connect on its own: handle_connect is  *)
(* applied to a request read from the connection by a Node in any state a  *)
(* Node value can hold, whether or not run leads to it.                    *)
(***************************************************************************)
AppliedIdle == applied = None

\* The Nodes the gate is tried on: any id, the roles of RunRoleSets, no
\* cluster or a cluster with any manager.
GateClusters == {[id |-> 1, manager |-> m, members |-> <<>>] : m \in Uuids}
GateNodes ==
  {[MkNode(id, roles, 1, DEFAULT_CLIENT_PORT,
           MkPersist(1, [node_id |-> Some(id), cluster |-> cluster]))
      EXCEPT !.comms_socket = Some(1)] :
     id \in Uuids, roles \in RunRoleSets, cluster \in Opt(GateClusters)}
GateRequests ==
  {MkRequest(origin, <<>>, body) :
     origin \in Opt(Uuids), body \in {Ping, GetInfo} \cup {ConnectToCluster(a) : a \in Ports}}

\* node.handle_connect(connection), the connection carrying request.
HandleConnectStep(node, request) ==
  /\ \E r \in {read_frame(write_frame(request, FALSE), "Request")} :
       applied' = Some([f |-> "handle_connect", node |-> node, request |-> request,
                        res |-> handle_connect(node, r)])
  /\ UNCHANGED outsideApplied

GateNext ==
  \E node \in GateNodes, request \in GateRequests : HandleConnectStep(node, request)

\* C11: a request that fails the gate (the node is not the manager of its
\* cluster, and the origin the request declares is not that manager) makes
\* handle_connect return an error value: it does not panic.
C11_RefusalIsReported ==
  \A a \in applied :
    (/\ a.f = "handle_connect"
     /\ ~is_manager(a.node)
     /\ a.request.node # ManagerOf(a.node))
    => /\ a.res.do = "stop"
       /\ a.res.res.kind = "Err"

(***************************************************************************)
(* The merge operations of Cluster on their own: join_into and absorb      *)
(* applied to any two clusters.                                            *)
(***************************************************************************)
\* self.join_into(&other).
ClusterJoinIntoStep(self, other) ==
  /\ applied' = Some([f |-> "join_into", self |-> self, other |-> other,
                      res |-> ClusterJoinInto(self, other)])
  /\ UNCHANGED outsideApplied

\* self.absorb(&other).
ClusterAbsorbStep(self, other) ==
  /\ applied' = Some([f |-> "absorb", self |-> self, other |-> other,
                      res |-> ClusterAbsorb(self, other)])
  /\ UNCHANGED outsideApplied

ClusterNext ==
  \/ \E self \in Clusters, other \in Clusters : ClusterJoinIntoStep(self, other)
  \/ \E self \in Clusters, other \in Clusters : ClusterAbsorbStep(self, other)

\* C14: c.join_into(o) returns, and leaves in c every member of c and of
\* o; the manager of c is then one of the two managers, the same whichever
\* of the two clusters is joined into the other; and joining o into c once
\* more changes nothing.
C14_JoinIntoTotalIdempotent ==
  \A a \in applied :
    a.f = "join_into" =>
      /\ a.res.kind = "Ok"
      /\ \A after \in a.res.val :
           /\ (DOMAIN a.self.members \cup DOMAIN a.other.members)
                \subseteq DOMAIN after.members
           /\ after.manager \in {a.self.manager, a.other.manager}
           /\ \E converse \in {ClusterJoinInto(a.other, a.self)} :
                /\ converse.kind = "Ok"
                /\ Unwrap(converse.val).manager = after.manager
           /\ \E again \in {ClusterJoinInto(after, a.other)} :
                /\ again.kind = "Ok"
                /\ again.val = Some(after)

\* C15: c.absorb(o) returns, and leaves c with its manager and its id,
\* with the members of both clusters, a member of o at the address o has
\* for it and any other member of c at the address c had; and absorbing o
\* once more changes nothing.
C15_AbsorbKeepsManagerLastWriteWins ==
  \A a \in applied :
    a.f = "absorb" =>
      /\ a.res.kind = "Ok"
      /\ \A after \in a.res.val :
           /\ after.manager = a.self.manager
           /\ after.id = a.self.id
           /\ DOMAIN after.members =
                DOMAIN a.self.members \cup DOMAIN a.other.members
           /\ \A k \in DOMAIN after.members :
                after.members[k] = IF k \in DOMAIN a.other.members
                                   THEN a.other.members[k] ELSE a.self.members[k]
           /\ \E again \in {ClusterAbsorb(after, a.other)} :
                /\ again.kind = "Ok"
                /\ again.val = Some(after)

(***************************************************************************)
(* send_to_node on its own: the call is made, and any of the things that   *)
(* can happen to it happens.                                               *)
(***************************************************************************)
\* The bytes a peer may answer with: the frame of any response, and a
\* header with any magic field followed by any body bytes, or cut short.
SendReplies ==
  {write_frame(v, FALSE) : v \in Responses}
  \cup {write_u64(BASE_FRAME_SIZE + Len(body)) \o Zeros(RESERVED_SIZE) \o magic \o body :
          magic \in RawMagics, body \in RawBodies}
  \cup BadFrames
SendOutcomes == {TimedOut, Refused, WasReset} \cup {Replied(bytes) : bytes \in SendReplies}

\* send_to_node(request, addr, timeout).await.
SendToNodeStep(happened) ==
  /\ applied' = Some([f |-> "send_to_node", happened |-> happened,
                      res |-> send_to_node(happened)])
  /\ UNCHANGED outsideApplied

SendNext == \E happened \in SendOutcomes : SendToNodeStep(happened)

\* C17: the error send_to_node returns when the timeout elapses is one it
\* returns for nothing else: not for a response with a wrong magic number,
\* bad base64 or bad JSON, and not for a connection the transport reports
\* as reset.
C17_TimeoutIsDistinct ==
  \A a \in applied :
    (a.f = "send_to_node" /\ a.happened = TimedOut) =>
      /\ a.res.kind = "Err"
      /\ \A other \in SendOutcomes \ {TimedOut} : send_to_node(other) # a.res

(***************************************************************************)
(* Specifications, one per component.  Each starts with the other          *)
(* components idle and leaves them alone.                                  *)
(***************************************************************************)
\*SPECS-BEGIN
FrameInit == FrameIdle /\ BuildIdle /\ DiskEmpty /\ PersistIdle /\ ConfigIdle /\ NodeIdle /\ AppliedIdle

SpecFrame == FrameInit /\ [][FrameNext]_vars

BuildInit == FrameIdle /\ BuildIdle /\ DiskEmpty /\ PersistIdle /\ ConfigIdle /\ NodeIdle /\ AppliedIdle

SpecBuild == BuildInit /\ [][BuildNext]_vars

PersistInit == FrameIdle /\ BuildIdle /\ DiskEmpty /\ PersistIdle /\ ConfigIdle /\ NodeIdle /\ AppliedIdle

SpecPersist == PersistInit /\ [][PersistNext]_vars

ConfigInit == FrameIdle /\ BuildIdle /\ DiskEmpty /\ PersistIdle /\ ConfigIdle /\ NodeIdle /\ AppliedIdle

SpecConfig == ConfigInit /\ [][ConfigNext]_vars

ClusterInit == FrameIdle /\ BuildIdle /\ DiskEmpty /\ PersistIdle /\ ConfigIdle /\ NodeIdle /\ AppliedIdle

SpecCluster == ClusterInit /\ [][ClusterNext]_vars

SendInit == FrameIdle /\ BuildIdle /\ DiskEmpty /\ PersistIdle /\ ConfigIdle /\ NodeIdle /\ AppliedIdle

SpecSend == SendInit /\ [][SendNext]_vars

GateInit == FrameIdle /\ BuildIdle /\ DiskEmpty /\ PersistIdle /\ ConfigIdle /\ NodeIdle /\ AppliedIdle

SpecGate == GateInit /\ [][GateNext]_vars

Init == FrameIdle /\ BuildIdle /\ DiskEmpty /\ PersistIdle /\ ConfigIdle /\ NodeIdle /\ AppliedIdle

Spec == Init /\ [][Next]_vars

====
